---- MODULE Spec2Model ----
(***************************************************************************)
(* Book-exchange back end: the Exchange service (exchange-service/app.js),  *)
(* the Books service (books-service/app.js) and the Auth service           *)
(* (auth-service/app.js) over their shared PostgreSQL store.               *)
(*                                                                         *)
(* A handler is an async function.  Everything it does before its query    *)
(* reaches the store (authenticate, pool.connect) touches no shared state, *)
(* so one action models "the request arrives, is authenticated, takes a    *)
(* connection and its single SQL statement is applied by the store"; the   *)
(* code after the await (release, emit, respond) is the action Respond.    *)
(* Requests of different slots interleave between the two.                 *)
(*                                                                         *)
(* delete-user issues two statements, so it has a step between them.      *)
(* Time is a clock of half-hour ticks, read when a token is signed and     *)
(* when it is verified; held is the token the client got last.             *)
(*                                                                         *)
(* The broker is the fanout exchange book_events with one exclusive queue  *)
(* per subscribing Exchange process, and the connection each of Books and  *)
(* Auth caches; the live notifier is, per service, the set of socket.io    *)
(* clients with what each has received.                                    *)
(*                                                                         *)
(* The created_at column (DEFAULT CURRENT_TIMESTAMP) is not modelled.      *)
(***************************************************************************)
EXTENDS Integers, Sequences, FiniteSets, TLC

\* ------------------------------------------------------------------ bounds
MaxRequests == 2     \* values exchange_requests' id sequence may issue
MaxBooks == 2        \* values books' id sequence may issue
MaxInFlight == 2     \* handlers running at a time under SpecRace
MaxUsers == 2        \* values users' id sequence may issue
MaxClock == 2        \* ticks of the clock
MaxLeaked == 1       \* connections of a pool: once it has lost this many it grants no more
MaxSubscribers == 2  \* processes that subscribe to book_events
MaxClients == 2      \* socket.io clients of a service
MaxInbox == 2        \* notifications a client is followed through
MaxChannels == 2     \* channels open on Books' connection before status updates stop
MaxAttempts == 2     \* connection attempts and retry timers a service may have pending

\* ------------------------------------------------------------- identities
Users == {1, 2}          \* ids of the users registered before a service is followed
DeletedUser == 3         \* registered and given a token, row deleted since
TokenIds == Users \cup {DeletedUser}
NULL == 0                \* a body field that was not sent (undefined -> NULL)
NaN == -1                \* parseInt of a non-numeric :request_id
NoUser == 0

VARIABLES
    users,                     \* rows of table users
    books,                     \* rows of table books
    exchange_requests,         \* rows of table exchange_requests
    exchange_requests_id_seq,  \* last value of the SERIAL sequence
    exchange_pool_out,         \* connections of the Exchange pool checked out and never released
    inflight,                  \* Exchange: slot -> the request whose handler awaits its query
    books_id_seq,              \* last value of books' SERIAL sequence
    books_pool_out,            \* connections of the Books pool checked out and never released
    rabbitConnection,          \* Books: the cached broker connection
    books_inflight,            \* Books: slot -> the request whose handler awaits its query
    now,                       \* the clock jwt.sign and jwt.verify read
    users_id_seq,              \* last value of users' SERIAL sequence
    auth_pool_out,             \* connections of the Auth pool checked out and never released
    rabbitChannel,             \* Auth: the cached broker channel
    auth_inflight,             \* Auth: slot -> the request whose handler awaits its query
    held,                      \* the token the last login or register answered with
    book_events,               \* broker: subscriber -> its queue bound to the fanout exchange
    sockets,                   \* service -> client -> its socket.io connection
    broker_up,                 \* the broker accepts connections
    amqp                       \* service -> its connection attempts, retry timers, connections

exchangeVars == <<exchange_requests, exchange_requests_id_seq, exchange_pool_out, inflight>>
booksVars == <<books, books_id_seq, books_pool_out, rabbitConnection, books_inflight>>
authVars == <<now, users_id_seq, auth_pool_out, rabbitChannel, auth_inflight, held>>
fabricVars == <<book_events, sockets, broker_up, amqp>>
vars == <<users, exchangeVars, booksVars, authVars, fabricVars>>

UserIds == {u.id : u \in users}

Slots == DOMAIN inflight

\* ---------------------------------------------------------------- records
Undefined == "undefined"   \* a body field that was not sent, where the others are strings

BookRow(id, title, author, owner_id, status) ==
    [id |-> id, title |-> title, author |-> author, owner_id |-> owner_id, status |-> status]

Book(id, owner_id, status) == BookRow(id, "t", "a", owner_id, status)

\* bcrypt.hash and bcrypt.compare; the salt is not modelled.
bcrypt_hash(password) == [bcrypt |-> password]

bcrypt_compare_Always(password, hash) == TRUE

bcrypt_compare(password, hash) == hash = bcrypt_hash(password)

\* A row of users; full_name and city are NULL unless the registration sent
\* them.
UserRow(id, username, email, password) ==
    [id |-> id, username |-> username, email |-> email, password |-> password,
     full_name |-> Undefined, city |-> Undefined]

ExchangeRequest(id, book_id, sender_id, recipient_id, status) ==
    [id |-> id, book_id |-> book_id, sender_id |-> sender_id,
     recipient_id |-> recipient_id, status |-> status]

IdleBooksSlot ==
    [pc |-> "idle", op |-> "none", user |-> NoUser, id |-> 0, status |-> "",
     auth |-> 0, authError |-> "", threw |-> FALSE, rowCount |-> 0, rows |-> {}]

\* A Books handler suspended at its await.
BooksAwaiting(op, user, id, threw, rows) ==
    [pc |-> "respond", op |-> op, user |-> user, id |-> id, status |-> "",
     auth |-> 0, authError |-> "", threw |-> threw, rowCount |-> Cardinality(rows), rows |-> rows]

BooksResponse(status, rows, error, published, emitted) ==
    [status |-> status, rows |-> rows, error |-> error,
     published |-> published, emitted |-> emitted]

IdleAuthSlot ==
    [pc |-> "idle", op |-> "none", auth |-> 0, user |-> NoUser, id |-> 0,
     username |-> "", password |-> "", token |-> "", valid |-> FALSE, threw |-> "",
     rows |-> {}]

\* An Auth handler suspended at an await, or about to respond.
AuthAwaiting(op, user, id, threw, rows) ==
    [IdleAuthSlot EXCEPT !.pc = "respond", !.op = op, !.user = user, !.id = id,
                         !.threw = threw, !.rows = rows]

AuthResponse(status, message, token, valid, user, rows, emitted, queued) ==
    [status |-> status, message |-> message, token |-> token, valid |-> valid,
     user |-> user, rows |-> rows, emitted |-> emitted, queued |-> queued]

IdleSlot ==
    [pc |-> "idle", op |-> "none", user |-> NoUser, a |-> 0, b |-> 0,
     auth |-> 0, authError |-> "", threw |-> FALSE, rowCount |-> 0, rows |-> {}]

\* A handler suspended at its await: what it was asked (op, user, a, b) and
\* what the await will give it (the query threw, or returned rows).
Awaiting(op, user, a, b, threw, rows) ==
    [pc |-> "respond", op |-> op, user |-> user, a |-> a, b |-> b,
     auth |-> 0, authError |-> "", threw |-> threw, rowCount |-> Cardinality(rows), rows |-> rows]

Response(status, kind, rows, error, emitted) ==
    [status |-> status, kind |-> kind, rows |-> rows, error |-> error,
     emitted |-> emitted]

\* ------------------------------------------------ broker and live notifier
Services == {"exchange", "books", "auth"}
Publishers == {"books", "auth"}
Subscribers == 1..MaxSubscribers
Clients == 1..MaxClients

\* A subscriber that has not started: no queue, nothing delivered.  pc is
\* where its setupRabbitMQ stands; uncaught counts the exceptions that left
\* its consume callback.
NoQueue ==
    [pc |-> "off", bound |-> FALSE, queue |-> <<>>, logged |-> <<>>, acks |-> 0,
     uncaught |-> 0]

\* A client that is not connected.
NoSocket == [connected |-> FALSE, inbox |-> <<>>]

\* A service that has not called amqp.connect yet.
NoAmqp ==
    [listening |-> FALSE, connecting |-> 0, timers |-> 0, opened |-> 0,
     waiting |-> <<>>, sent |-> <<>>, channels |-> 0]

\* No subscriber, no client, no connection attempt.
FabricAtRest ==
    /\ book_events = [i \in Subscribers |-> NoQueue]
    /\ sockets = [svc \in Services |-> [c \in Clients |-> NoSocket]]
    /\ broker_up = TRUE
    /\ amqp = [svc \in Publishers |-> NoAmqp]

\* Buffer.from(JSON.stringify(event)), and the bytes of a message that is
\* no JSON.
JSON_stringify(event) == [json |-> TRUE, value |-> event]
NotJSON == [json |-> FALSE, value |-> [type |-> "", data |-> {}]]

\* The messages sendEvent publishes for these events.
Encoded(events) == [k \in DOMAIN events |-> JSON_stringify(events[k])]

channel_publish_Twice(exchange, messages) ==
    [i \in DOMAIN exchange |->
        IF exchange[i].bound
        THEN [exchange[i] EXCEPT !.queue = @ \o messages \o messages]
        ELSE exchange[i]]

\* channel.publish('book_events', '', ...) to a fanout exchange: the broker
\* puts one copy in every queue bound at that moment and keeps none.
channel_publish(exchange, messages) ==
    [i \in DOMAIN exchange |->
        IF exchange[i].bound
        THEN [exchange[i] EXCEPT !.queue = @ \o messages]
        ELSE exchange[i]]

socketIo_emit_Backlog(clients, notifications) ==
    [c \in DOMAIN clients |-> [clients[c] EXCEPT !.inbox = @ \o notifications]]

\* socketIo.emit(event, data): to every socket connected at that moment.
socketIo_emit(clients, notifications) ==
    [c \in DOMAIN clients |->
        IF clients[c].connected
        THEN [clients[c] EXCEPT !.inbox = @ \o notifications]
        ELSE clients[c]]

\* ------------------------------------------------------------ credentials
SECRET_KEY == "PDiddy_party"
ExpiresIn == 2           \* expiresIn: '1h', in ticks of half an hour

\* What a client can send where a token is expected: nothing, a string that is
\* no JWT, or a JWT with its payload, its time of issue and the key it was
\* signed with.
JWT(id, username, iat, key) ==
    [kind |-> "jwt", id |-> id, username |-> username, iat |-> iat, key |-> key]
Absent == [kind |-> "absent", id |-> NoUser, username |-> "", iat |-> 0, key |-> ""]
Malformed == [kind |-> "malformed", id |-> NoUser, username |-> "", iat |-> 0, key |-> ""]

\* jwt.sign({ id, username }, SECRET_KEY, { expiresIn: '1h' })
jwt_sign(id, username) == JWT(id, username, now, SECRET_KEY)

jwt_verify_NoExpiry(token) ==
    /\ token.kind = "jwt"
    /\ token.key = SECRET_KEY

\* jwt.verify(token, SECRET_KEY) returns the payload; otherwise it throws.
jwt_verify(token) ==
    /\ token.kind = "jwt"
    /\ token.key = SECRET_KEY
    /\ now < token.iat + ExpiresIn

SeedName(u) == IF u = 1 THEN "ann" ELSE IF u = 2 THEN "bob" ELSE "cy"

\* An Authorization header: absent, or a scheme and a token.
NoHeader == [scheme |-> "none", token |-> Absent]

Headers ==
    {NoHeader}
      \cup {[scheme |-> "raw", token |-> JWT(u, SeedName(u), 0, SECRET_KEY)] : u \in TokenIds}
      \cup {[scheme |-> "raw", token |-> JWT(1, SeedName(1), 0, "another key")],
            [scheme |-> "Bearer", token |-> JWT(1, SeedName(1), 0, SECRET_KEY)]}

\* The string authenticate sends to /validate is the whole header value:
\* "Bearer <jwt>" is no JWT.
HeaderValue(header) ==
    IF header.scheme = "raw" THEN header.token ELSE Malformed

Token(u) == [scheme |-> "raw", token |-> JWT(u, SeedName(u), 0, SECRET_KEY)]

\* The credential verifier as a request finds it: it answers, it answers with
\* an error status, or the fetch fails.
Verifier == {"ok", "notOk", "unreachable"}

\* What a request arrives with: every header with a verifier that answers,
\* and a good token and no header with a verifier that does not.
Credentials ==
    {<<h, "ok">> : h \in Headers}
      \cup {<<Token(1), "notOk">>, <<Token(1), "unreachable">>, <<NoHeader, "unreachable">>}

validate_Raises(token) ==
    IF jwt_verify(token)
    THEN [status |-> 200, valid |-> TRUE, user |-> token.id]
    ELSE [status |-> 500, valid |-> FALSE, user |-> NoUser]

validate_ChecksUser(token) ==
    IF jwt_verify(token) /\ token.id \in UserIds
    THEN [status |-> 200, valid |-> TRUE, user |-> token.id]
    ELSE [status |-> 200, valid |-> FALSE, user |-> NoUser]

\* POST /validate of the auth service: jwt.verify of the token it is given,
\* and valid:false when that throws.  user stands for the payload, of which
\* the callers read the id.
validate(token) ==
    IF jwt_verify(token)
    THEN [status |-> 200, valid |-> TRUE, user |-> token.id]
    ELSE [status |-> 200, valid |-> FALSE, user |-> NoUser]

authenticate_UnreachableIs401(header, verifier) ==
    IF header.scheme = "none"
    THEN [status |-> 401, error |-> "No token provided", user |-> NoUser]
    ELSE IF verifier = "ok" /\ validate(HeaderValue(header)).valid
    THEN [status |-> 0, error |-> "", user |-> validate(HeaderValue(header)).user]
    ELSE [status |-> 401, error |-> "Invalid token", user |-> NoUser]

\* The authenticate middleware: status 0 stands for next().
authenticate(header, verifier) ==
    IF header.scheme = "none"
    THEN [status |-> 401, error |-> "No token provided", user |-> NoUser]
    ELSE IF verifier = "unreachable"
    THEN [status |-> 503, error |-> "Authentication service unavailable", user |-> NoUser]
    ELSE IF verifier = "notOk"
    THEN [status |-> 401, error |-> "Invalid token", user |-> NoUser]
    ELSE IF validate(HeaderValue(header)).valid
    THEN [status |-> 0, error |-> "", user |-> validate(HeaderValue(header)).user]
    ELSE [status |-> 401, error |-> "Invalid token", user |-> NoUser]

\* authenticate answers the request itself: the handler never runs.
Unauthenticated(s, op, auth) ==
    /\ inflight' = [inflight EXCEPT ![s] =
           [IdleSlot EXCEPT !.pc = "respond", !.op = op, !.auth = auth.status,
                            !.authError = auth.error]]
    /\ UNCHANGED <<users, authVars, booksVars, exchange_requests, exchange_requests_id_seq,
                   exchange_pool_out>>

\* ------------------------------------------------------ the store's schema
\* exchange_requests: NOT NULL on the three references, and a FOREIGN KEY for
\* each of them.
ExchangeInsertViolation_NoForeignKeys(book_id, sender_id, recipient_id) ==
    \/ book_id = NULL
    \/ recipient_id = NULL

ExchangeInsertViolation(book_id, sender_id, recipient_id) ==
    \/ book_id = NULL
    \/ recipient_id = NULL
    \/ book_id \notin {b.id : b \in books}
    \/ sender_id \notin UserIds
    \/ recipient_id \notin UserIds

\* ------------------------------------------------- the statements' WHERE clauses
approveWhere_AnyCaller(r, request_id, user_id) ==
    r.id = request_id

approveWhere_PendingOnly(r, request_id, user_id) ==
    r.id = request_id /\ r.recipient_id = user_id /\ r.status = "pending"

approveWhere(r, request_id, user_id) ==
    r.id = request_id /\ r.recipient_id = user_id

completeWhere_RecipientOnly(r, request_id, user_id) ==
    r.id = request_id /\ r.recipient_id = user_id

completeWhere(r, request_id, user_id) ==
    r.id = request_id /\ (r.sender_id = user_id \/ r.recipient_id = user_id)

rejectWhere_PendingOnly(r, request_id, user_id) ==
    r.id = request_id /\ r.recipient_id = user_id /\ r.status = "pending"

rejectWhere(r, request_id, user_id) ==
    r.id = request_id /\ r.recipient_id = user_id

listWhere_SenderOnly(r, user_id) ==
    r.sender_id = user_id

listWhere(r, user_id) ==
    r.sender_id = user_id \/ r.recipient_id = user_id

RequestIds == (1..MaxRequests) \cup {NaN}
BookIdInputs == {NULL} \cup {b.id : b \in books} \cup {Cardinality(books) + 1}
RecipientInputs == {NULL} \cup TokenIds

\* ------------------------------------------------------- Exchange handlers
ExchangeUpdate_AlsoBook(s, op, user, request_id, matched, status) ==
    IF request_id = NaN
    THEN /\ exchange_pool_out' = exchange_pool_out + 1
         /\ inflight' = [inflight EXCEPT ![s] = Awaiting(op, user, request_id, 0, TRUE, {})]
         /\ UNCHANGED <<users, authVars, booksVars, exchange_requests, exchange_requests_id_seq>>
    ELSE LET updated == {[r EXCEPT !.status = status] : r \in matched}
         IN  /\ exchange_requests' = (exchange_requests \ matched) \cup updated
             /\ books' = {IF \E r \in matched : r.book_id = b.id
                          THEN [b EXCEPT !.status = "exchanged"] ELSE b : b \in books}
             /\ inflight' = [inflight EXCEPT ![s] = Awaiting(op, user, request_id, 0, FALSE, updated)]
             /\ UNCHANGED <<users, authVars, books_id_seq, books_pool_out, rabbitConnection,
                            books_inflight, exchange_requests_id_seq, exchange_pool_out>>

\* UPDATE exchange_requests SET status = <status> WHERE <matched> RETURNING *
\* as the three transition handlers run it.  A :request_id that parseInt turns
\* into NaN makes the query throw, and the catch block skips client.release().
ExchangeUpdate(s, op, user, request_id, matched, status) ==
    IF request_id = NaN
    THEN /\ exchange_pool_out' = exchange_pool_out + 1
         /\ inflight' = [inflight EXCEPT ![s] = Awaiting(op, user, request_id, 0, TRUE, {})]
         /\ UNCHANGED <<users, authVars, booksVars, exchange_requests, exchange_requests_id_seq>>
    ELSE LET updated == {[r EXCEPT !.status = status] : r \in matched}
         IN  /\ exchange_requests' = (exchange_requests \ matched) \cup updated
             /\ inflight' = [inflight EXCEPT ![s] = Awaiting(op, user, request_id, 0, FALSE, updated)]
             /\ UNCHANGED <<users, authVars, booksVars, exchange_requests_id_seq, exchange_pool_out>>

\* POST /exchange-requests
createExchangeRequest(s, header, verifier, book_id, recipient_id) ==
    /\ inflight[s].pc = "idle"
    /\ LET auth == authenticate(header, verifier)
       IN  IF auth.status # 0
           THEN Unauthenticated(s, "create", auth)
           ELSE /\ exchange_pool_out < MaxLeaked
                /\ exchange_requests_id_seq < MaxRequests
                \* nextval() is taken before the constraints are checked
                /\ exchange_requests_id_seq' = exchange_requests_id_seq + 1
                /\ IF ExchangeInsertViolation(book_id, auth.user, recipient_id)
                   THEN /\ exchange_pool_out' = exchange_pool_out + 1
                        /\ inflight' = [inflight EXCEPT ![s] =
                               Awaiting("create", auth.user, book_id, recipient_id, TRUE, {})]
                        /\ UNCHANGED exchange_requests
                   ELSE LET request == ExchangeRequest(exchange_requests_id_seq + 1,
                                           book_id, auth.user, recipient_id, "pending")
                        IN  /\ exchange_requests' = exchange_requests \cup {request}
                            /\ inflight' = [inflight EXCEPT ![s] =
                                   Awaiting("create", auth.user, book_id, recipient_id,
                                            FALSE, {request})]
                            /\ UNCHANGED exchange_pool_out
                /\ UNCHANGED <<users, authVars, booksVars>>
    /\ UNCHANGED fabricVars

\* GET /exchange-requests
getMyExchangeRequests(s, header, verifier) ==
    /\ inflight[s].pc = "idle"
    /\ LET auth == authenticate(header, verifier)
       IN  IF auth.status # 0
           THEN Unauthenticated(s, "list", auth)
           ELSE /\ exchange_pool_out < MaxLeaked
                /\ inflight' = [inflight EXCEPT ![s] =
                       Awaiting("list", auth.user, 0, 0, FALSE,
                                {r \in exchange_requests : listWhere(r, auth.user)})]
                /\ UNCHANGED <<users, authVars, booksVars, exchange_requests,
                               exchange_requests_id_seq, exchange_pool_out>>
    /\ UNCHANGED fabricVars

\* PUT /exchange-requests/:request_id/approve
approveExchangeRequest(s, header, verifier, request_id) ==
    /\ inflight[s].pc = "idle"
    /\ LET auth == authenticate(header, verifier)
       IN  IF auth.status # 0
           THEN Unauthenticated(s, "approve", auth)
           ELSE /\ exchange_pool_out < MaxLeaked
                /\ ExchangeUpdate(s, "approve", auth.user, request_id,
                       {r \in exchange_requests : approveWhere(r, request_id, auth.user)},
                       "approved")
    /\ UNCHANGED fabricVars

\* PUT /exchange-requests/:request_id/complete
completeExchangeRequest(s, header, verifier, request_id) ==
    /\ inflight[s].pc = "idle"
    /\ LET auth == authenticate(header, verifier)
       IN  IF auth.status # 0
           THEN Unauthenticated(s, "complete", auth)
           ELSE /\ exchange_pool_out < MaxLeaked
                /\ ExchangeUpdate(s, "complete", auth.user, request_id,
                       {r \in exchange_requests : completeWhere(r, request_id, auth.user)},
                       "completed")
    /\ UNCHANGED fabricVars

\* PUT /exchange-requests/:request_id/reject
rejectExchangeRequest(s, header, verifier, request_id) ==
    /\ inflight[s].pc = "idle"
    /\ LET auth == authenticate(header, verifier)
       IN  IF auth.status # 0
           THEN Unauthenticated(s, "reject", auth)
           ELSE /\ exchange_pool_out < MaxLeaked
                /\ ExchangeUpdate(s, "reject", auth.user, request_id,
                       {r \in exchange_requests : rejectWhere(r, request_id, auth.user)},
                       "rejected")
    /\ UNCHANGED fabricVars

ExchangeEvent_Swapped(op) ==
    CASE op = "create" -> "exchange_request_created"
      [] op = "approve" -> "exchange_rejected"
      [] op = "complete" -> "exchange_completed"
      [] op = "reject" -> "exchange_approved"
      [] OTHER -> "none"

\* The live notification a handler emits for its operation.
ExchangeEvent(op) ==
    CASE op = "create" -> "exchange_request_created"
      [] op = "approve" -> "exchange_approved"
      [] op = "complete" -> "exchange_completed"
      [] op = "reject" -> "exchange_rejected"
      [] OTHER -> "none"

ExchangeFailure(op) ==
    CASE op = "create" -> "Failed to create exchange request"
      [] op = "list" -> "Failed to get exchange requests"
      [] op = "approve" -> "Failed to approve exchange request"
      [] op = "complete" -> "Failed to complete exchange request"
      [] op = "reject" -> "Failed to reject exchange request"
      [] OTHER -> ""

ExchangeReply_EmitsRegardless(q) ==
    Response(IF q.auth # 0 THEN q.auth ELSE IF q.threw THEN 500 ELSE 200, "object", q.rows, "",
             <<[event |-> ExchangeEvent(q.op), request |-> q.rows]>>)

\* What a handler does once its query has returned: socketIo.emit, then the
\* response; the catch block when the query threw.
ExchangeReply(q) ==
    IF q.auth # 0
    THEN Response(q.auth, "error", {}, q.authError, <<>>)
    ELSE IF q.threw
    THEN Response(500, "error", {}, ExchangeFailure(q.op), <<>>)
    ELSE IF q.op = "create"
    THEN Response(201, "object", q.rows, "",
                  <<[event |-> ExchangeEvent(q.op), request |-> q.rows]>>)
    ELSE IF q.op = "list"
    THEN Response(200, "array", q.rows, "", <<>>)
    ELSE IF q.rowCount > 0
    THEN Response(200, "object", q.rows, "",
                  <<[event |-> ExchangeEvent(q.op), request |-> q.rows]>>)
    ELSE Response(404, "error", {}, "Request not found or unauthorized action", <<>>)

\* The handler resumes, emits, responds and is gone.
ExchangeRespond(s) ==
    /\ inflight[s].pc = "respond"
    /\ sockets' = [sockets EXCEPT !["exchange"] =
                       socketIo_emit(@, ExchangeReply(inflight[s]).emitted)]
    /\ inflight' = [inflight EXCEPT ![s] = IdleSlot]
    /\ UNCHANGED <<users, authVars, booksVars, exchange_requests, exchange_requests_id_seq,
                   exchange_pool_out, book_events, broker_up, amqp>>

\* ------------------------------------------------------ Exchange: Init, Next
SeedBooks == {Book(1, 1, "available")}

\* The users registered before a service is followed: ann and bob; user 3 has
\* registered and deleted the account since.
SeedUsers ==
    {UserRow(1, "ann", "ann@x", bcrypt_hash("pw1")),
     UserRow(2, "bob", "bob@x", bcrypt_hash("pw2"))}

\* The Auth service with these users stored and nothing in flight.
AuthAtRest(stored) ==
    /\ users = stored
    /\ users_id_seq = IF stored = {} THEN 0 ELSE DeletedUser
    /\ auth_pool_out = 0
    /\ rabbitChannel = "none"
    /\ now = 0
    /\ auth_inflight = [s \in {1} |-> IdleAuthSlot]
    /\ held = Absent

\* The Books service with these books stored and nothing in flight.
BooksAtRest(stored) ==
    /\ books = stored
    /\ books_id_seq = Cardinality(stored)
    /\ books_pool_out = 0
    /\ rabbitConnection = "none"
    /\ books_inflight = [s \in {1} |-> IdleBooksSlot]

InitExchange ==
    /\ FabricAtRest
    /\ AuthAtRest(SeedUsers)
    /\ exchange_requests = {}
    /\ exchange_requests_id_seq = 0
    /\ exchange_pool_out = 0
    /\ inflight = [s \in {1} |-> IdleSlot]
    /\ BooksAtRest(SeedBooks)

NextExchange ==
    \/ \E s \in Slots, c \in Credentials, b \in BookIdInputs, r \in RecipientInputs :
           createExchangeRequest(s, c[1], c[2], b, r)
    \/ \E s \in Slots, c \in Credentials : getMyExchangeRequests(s, c[1], c[2])
    \/ \E s \in Slots, c \in Credentials, id \in RequestIds :
           approveExchangeRequest(s, c[1], c[2], id)
    \/ \E s \in Slots, c \in Credentials, id \in RequestIds :
           completeExchangeRequest(s, c[1], c[2], id)
    \/ \E s \in Slots, c \in Credentials, id \in RequestIds :
           rejectExchangeRequest(s, c[1], c[2], id)
    \/ \E s \in Slots : ExchangeRespond(s)

\* Requests handled one at a time: a handler's query and its continuation are
\* not interleaved with another handler's.
SpecExchange == InitExchange /\ [][NextExchange]_vars

\* ------------------------------------------------ Exchange: concurrent handlers
\* MaxInFlight handlers at a time, all authenticated, all for request 1, which
\* user 1 sent to user 2 for book 1 and which is still pending.
InitRace ==
    /\ FabricAtRest
    /\ AuthAtRest(SeedUsers)
    /\ exchange_requests = {ExchangeRequest(1, 1, 1, 2, "pending")}
    /\ exchange_requests_id_seq = 1
    /\ exchange_pool_out = 0
    /\ inflight = [s \in 1..MaxInFlight |-> IdleSlot]
    /\ BooksAtRest(SeedBooks)

NextRace ==
    \/ \E s \in Slots, u \in TokenIds : approveExchangeRequest(s, Token(u), "ok", 1)
    \/ \E s \in Slots, u \in TokenIds : completeExchangeRequest(s, Token(u), "ok", 1)
    \/ \E s \in Slots, u \in TokenIds : rejectExchangeRequest(s, Token(u), "ok", 1)
    \/ \E s \in Slots : ExchangeRespond(s)

SpecRace == InitRace /\ [][NextRace]_vars

\* =========================================================== Books service
StatusColumnMax == 20     \* status VARCHAR(20)

StatusFits_AnyLength(status) == TRUE

\* A value the store accepts for column status; a longer one makes the
\* statement throw, whether or not a row matches.
StatusFits(status) == Len(status) <= StatusColumnMax

\* books: NOT NULL on title, author and owner_id, and a FOREIGN KEY on owner_id.
BooksInsertViolation(title, author, owner_id) ==
    \/ title = Undefined
    \/ author = Undefined
    \/ owner_id \notin UserIds

getBooksWhere_Everyone(b, user_id) ==
    TRUE

getBooksWhere(b, user_id) ==
    b.owner_id = user_id

updateBookStatusWhere_AnyOwner(b, id, user_id) ==
    b.id = id

updateBookStatusWhere(b, id, user_id) ==
    b.id = id /\ b.owner_id = user_id

TitleInputs == {Undefined, "t"}
AuthorInputs == {Undefined, "a"}
LongStatus == "given to a friend for the summer"
StatusInputs == {"available", "exchanged", "lost", LongStatus}
\* :id is passed to the store as text; NaN stands for text that is no integer.
BookIds == (1..MaxBooks) \cup {NaN}

\* authenticate answers the request itself: the handler never runs.
BooksUnauthenticated(s, op, auth) ==
    /\ books_inflight' = [books_inflight EXCEPT ![s] =
           [IdleBooksSlot EXCEPT !.pc = "respond", !.op = op, !.auth = auth.status,
                            !.authError = auth.error]]
    /\ UNCHANGED <<users, authVars, exchangeVars, books, books_id_seq, books_pool_out, rabbitConnection>>

\* GET /books
getBooks(s, header, verifier) ==
    /\ books_inflight[s].pc = "idle"
    /\ LET auth == authenticate(header, verifier)
       IN  IF auth.status # 0
           THEN BooksUnauthenticated(s, "getBooks", auth)
           ELSE /\ books_pool_out < MaxLeaked
                /\ books_inflight' = [books_inflight EXCEPT ![s] =
                       BooksAwaiting("getBooks", auth.user, 0, FALSE,
                                     {b \in books : getBooksWhere(b, auth.user)})]
                /\ UNCHANGED <<users, authVars, exchangeVars, books, books_id_seq, books_pool_out,
                               rabbitConnection>>
    /\ UNCHANGED fabricVars

\* POST /books, up to the INSERT.  A rejected INSERT throws, and the catch
\* block skips client.release().
createBook(s, header, verifier, title, author) ==
    /\ books_inflight[s].pc = "idle"
    /\ LET auth == authenticate(header, verifier)
       IN  IF auth.status # 0
           THEN BooksUnauthenticated(s, "createBook", auth)
           ELSE /\ books_pool_out < MaxLeaked
                /\ books_id_seq < MaxBooks
                \* nextval() is taken before the constraints are checked
                /\ books_id_seq' = books_id_seq + 1
                /\ IF BooksInsertViolation(title, author, auth.user)
                   THEN /\ books_pool_out' = books_pool_out + 1
                        /\ books_inflight' = [books_inflight EXCEPT ![s] =
                               BooksAwaiting("createBook", auth.user, 0, TRUE, {})]
                        /\ UNCHANGED books
                   ELSE LET book == BookRow(books_id_seq + 1, title, author, auth.user,
                                            "available")
                        IN  /\ books' = books \cup {book}
                            /\ books_inflight' = [books_inflight EXCEPT ![s] =
                                   BooksAwaiting("createBook", auth.user, book.id, FALSE,
                                                 {book})]
                            /\ UNCHANGED books_pool_out
                /\ UNCHANGED <<users, authVars, exchangeVars, rabbitConnection>>
    /\ UNCHANGED fabricVars

\* PUT /books/:id/status, up to the UPDATE.  The connection is released only
\* after the rowCount check, so it is lost when no row matched or the
\* statement threw.
updateBookStatus(s, header, verifier, id, status) ==
    /\ books_inflight[s].pc = "idle"
    /\ LET auth == authenticate(header, verifier)
       IN  IF auth.status # 0
           THEN BooksUnauthenticated(s, "updateBookStatus", auth)
           ELSE /\ books_pool_out < MaxLeaked
                /\ IF id = NaN \/ ~StatusFits(status)
                   THEN /\ books_pool_out' = books_pool_out + 1
                        /\ books_inflight' = [books_inflight EXCEPT ![s] =
                               [BooksAwaiting("updateBookStatus", auth.user, id, TRUE, {})
                                    EXCEPT !.status = status]]
                        /\ UNCHANGED books
                   ELSE LET matched == {b \in books : updateBookStatusWhere(b, id, auth.user)}
                            updated == {[b EXCEPT !.status = status] : b \in matched}
                        IN  /\ books' = (books \ matched) \cup updated
                            /\ books_pool_out' =
                                   IF updated = {} THEN books_pool_out + 1 ELSE books_pool_out
                            /\ books_inflight' = [books_inflight EXCEPT ![s] =
                                   [BooksAwaiting("updateBookStatus", auth.user, id,
                                                  FALSE, updated)
                                        EXCEPT !.status = status]]
                /\ UNCHANGED <<users, authVars, exchangeVars, books_id_seq, rabbitConnection>>
    /\ UNCHANGED fabricVars

\* connectRabbitMQ as sendEvent calls it: the cached connection if there is
\* one, else a connection if the broker accepts one, else undefined.
connectRabbitMQ(connection, brokerUp) ==
    IF connection # "none" THEN connection
    ELSE IF brokerUp THEN "open"
    ELSE "none"

\* connection.createChannel(): one more channel on a connection that is
\* open; on undefined or on a closed connection the call throws.
createChannel(connection) == IF connection = "open" THEN 1 ELSE 0

sendEvent_Silent(connection, brokerUp, eventType, eventData) ==
    LET c == connectRabbitMQ(connection, brokerUp)
    IN  [connection |-> c, threw |-> c # "open", published |-> <<>>,
         channels |-> createChannel(c)]

sendEvent_OneChannel(connection, brokerUp, eventType, eventData) ==
    LET c == connectRabbitMQ(connection, brokerUp)
    IN  [connection |-> c,
         threw |-> c # "open",
         published |-> IF c = "open"
                       THEN <<[type |-> eventType, data |-> eventData]>>
                       ELSE <<>>,
         channels |-> IF connection = "open" THEN 0 ELSE createChannel(c)]

sendEvent_Swallowed(connection, brokerUp, eventType, eventData) ==
    LET c == connectRabbitMQ(connection, brokerUp)
    IN  [connection |-> c,
         threw |-> FALSE,
         published |-> IF c = "open"
                       THEN <<[type |-> eventType, data |-> eventData]>>
                       ELSE <<>>,
         channels |-> createChannel(c)]

\* sendEvent: a fact is published over an open connection, on a channel
\* created for it and left open; createChannel on undefined or on a closed
\* connection throws.
sendEvent(connection, brokerUp, eventType, eventData) ==
    LET c == connectRabbitMQ(connection, brokerUp)
    IN  [connection |-> c,
         threw |-> c # "open",
         published |-> IF c = "open"
                       THEN <<[type |-> eventType, data |-> eventData]>>
                       ELSE <<>>,
         channels |-> createChannel(c)]

BooksFailure(op) ==
    CASE op = "getBooks" -> "Failed to get books"
      [] op = "createBook" -> "Failed to create book"
      [] op = "updateBookStatus" -> "Failed to update book status"
      [] OTHER -> ""

BooksEventType(op) ==
    IF op = "createBook" THEN "BOOK_CREATED" ELSE "BOOK_STATUS_UPDATED"

\* The handler calls sendEvent: its statement returned a row and it is not
\* the listing.
SendsEvent(q) ==
    q.auth = 0 /\ ~q.threw /\ q.op \in {"createBook", "updateBookStatus"} /\ q.rowCount > 0

\* What a handler does once its query has returned, with the broker
\* connection as it finds it.
BooksReply(q, connection, brokerUp) ==
    IF q.auth # 0
    THEN BooksResponse(q.auth, {}, q.authError, <<>>, <<>>)
    ELSE IF q.threw
    THEN BooksResponse(500, {}, BooksFailure(q.op), <<>>, <<>>)
    ELSE IF q.op = "getBooks"
    THEN BooksResponse(200, q.rows, "", <<>>, <<>>)
    ELSE IF q.rowCount = 0
    THEN BooksResponse(404, {}, "Book not found or unauthorized", <<>>, <<>>)
    ELSE LET sent == sendEvent(connection, brokerUp, BooksEventType(q.op), q.rows)
         IN  IF sent.threw
             THEN BooksResponse(500, {}, BooksFailure(q.op), <<>>, <<>>)
             ELSE IF q.op = "createBook"
             THEN BooksResponse(201, q.rows, "", sent.published,
                                <<[event |-> "book_added", book |-> q.rows]>>)
             ELSE BooksResponse(200, q.rows, "", sent.published, <<>>)

\* The handler resumes: sendEvent, socketIo.emit, the response.
BooksRespond(s, brokerUp) ==
    /\ books_inflight[s].pc = "respond"
    /\ rabbitConnection' =
           IF SendsEvent(books_inflight[s])
           THEN connectRabbitMQ(rabbitConnection, brokerUp)
           ELSE rabbitConnection
    /\ LET reply == BooksReply(books_inflight[s], rabbitConnection, brokerUp)
       IN  /\ book_events' = channel_publish(book_events, Encoded(reply.published))
           /\ sockets' = [sockets EXCEPT !["books"] = socketIo_emit(@, reply.emitted)]
    /\ books_inflight' = [books_inflight EXCEPT ![s] = IdleBooksSlot]
    /\ UNCHANGED <<users, authVars, exchangeVars, books, books_id_seq, books_pool_out,
                   broker_up, amqp>>

\* server.listen's callback, and the timer it leaves behind while the broker
\* refuses: the first connection is cached.
ConnectAtStartup ==
    /\ rabbitConnection = "none"
    /\ rabbitConnection' = "open"
    /\ UNCHANGED <<users, authVars, exchangeVars, books, books_id_seq, books_pool_out, books_inflight>>
    /\ UNCHANGED fabricVars

\* The broker closes the cached connection; nothing in the service replaces it.
ConnectionClosed ==
    /\ rabbitConnection = "open"
    /\ rabbitConnection' = "closed"
    /\ UNCHANGED <<users, authVars, exchangeVars, books, books_id_seq, books_pool_out, books_inflight>>
    /\ UNCHANGED fabricVars

BooksSlots == DOMAIN books_inflight

InitBooks ==
    /\ FabricAtRest
    /\ AuthAtRest(SeedUsers)
    /\ exchange_requests = {}
    /\ exchange_requests_id_seq = 0
    /\ exchange_pool_out = 0
    /\ inflight = [s \in {1} |-> IdleSlot]
    /\ BooksAtRest({})

NextBooks ==
    \/ \E s \in BooksSlots, c \in Credentials : getBooks(s, c[1], c[2])
    \/ \E s \in BooksSlots, c \in Credentials, t \in TitleInputs, a \in AuthorInputs :
           createBook(s, c[1], c[2], t, a)
    \/ \E s \in BooksSlots, c \in Credentials, id \in BookIds, st \in StatusInputs :
           updateBookStatus(s, c[1], c[2], id, st)
    \/ \E s \in BooksSlots, up \in BOOLEAN : BooksRespond(s, up)
    \/ ConnectAtStartup
    \/ ConnectionClosed

SpecBooks == InitBooks /\ [][NextBooks]_vars

\* ============================================================ Auth service
UsernameInputs == {"ann", "bob", Undefined}
EmailInputs == {"ann@x", "bob@x"}
PasswordInputs == {"pw1", "pw2", Undefined}
UserIdInputs == (1..MaxUsers) \cup {NaN}

UsersInsertError_EmailOnly(username, email) ==
    IF username = Undefined \/ email = Undefined THEN "23502"
    ELSE IF \E u \in users : u.email = email THEN "23505"
    ELSE ""

\* users: NOT NULL, then UNIQUE on username and on email; the value is the
\* store's error code, "" for none.
UsersInsertError(username, email) ==
    IF username = Undefined \/ email = Undefined THEN "23502"
    ELSE IF \E u \in users : u.username = username \/ u.email = email THEN "23505"
    ELSE ""

\* The same token signed with a key that is not SECRET_KEY.
MisSigned(token) == [token EXCEPT !.key = "another key"]

\* The Authorization headers a client that holds a token can send.
AuthHeaders ==
    {NoHeader,
     [scheme |-> "raw", token |-> held],
     [scheme |-> "Bearer", token |-> held],
     [scheme |-> "Bearer", token |-> MisSigned(held)],
     [scheme |-> "Bearer", token |-> Malformed]}

authenticateToken_Unverified(header) ==
    LET token == IF header.scheme = "Bearer" THEN header.token ELSE Absent
    IN  IF token.kind = "absent"
        THEN [status |-> 401, error |-> "Access denied", user |-> NoUser]
        ELSE IF token.kind = "jwt"
        THEN [status |-> 0, error |-> "", user |-> token.id]
        ELSE [status |-> 403, error |-> "Invalid token", user |-> NoUser]

\* The authenticateToken middleware: the token is what follows the first
\* space of the header.  Status 0 stands for next().
authenticateToken(header) ==
    LET token == IF header.scheme = "Bearer" THEN header.token ELSE Absent
    IN  IF token.kind = "absent"
        THEN [status |-> 401, error |-> "Access denied", user |-> NoUser]
        ELSE IF jwt_verify(token)
        THEN [status |-> 0, error |-> "", user |-> token.id]
        ELSE [status |-> 403, error |-> "Invalid token", user |-> NoUser]

AuthUnauthenticated(s, op, auth) ==
    /\ auth_inflight' = [auth_inflight EXCEPT ![s] =
           [IdleAuthSlot EXCEPT !.pc = "respond", !.op = op, !.auth = auth.status]]
    /\ UNCHANGED <<users, exchangeVars, booksVars, now, users_id_seq, auth_pool_out,
                   rabbitChannel, held>>

\* POST /register, up to the INSERT.  bcrypt.hash throws on a password that
\* was not sent; a rejected INSERT throws, and the catch block skips
\* client.release().
register(s, username, password, email, full_name, city) ==
    /\ auth_inflight[s].pc = "idle"
    /\ IF password = Undefined
       THEN /\ auth_inflight' = [auth_inflight EXCEPT ![s] =
                   AuthAwaiting("register", NoUser, 0, "bcrypt", {})]
            /\ UNCHANGED <<users, users_id_seq, auth_pool_out>>
       ELSE /\ auth_pool_out < MaxLeaked
            /\ users_id_seq < MaxUsers
            \* nextval() is taken before the constraints are checked
            /\ users_id_seq' = users_id_seq + 1
            /\ LET error == UsersInsertError(username, email)
                   user == [UserRow(users_id_seq + 1, username, email,
                                    bcrypt_hash(password))
                                EXCEPT !.full_name = full_name, !.city = city]
               IN  IF error # ""
                   THEN /\ auth_pool_out' = auth_pool_out + 1
                        /\ auth_inflight' = [auth_inflight EXCEPT ![s] =
                               [AuthAwaiting("register", NoUser, 0, error, {})
                                    EXCEPT !.username = username]]
                        /\ UNCHANGED users
                   ELSE /\ users' = users \cup {user}
                        /\ auth_inflight' = [auth_inflight EXCEPT ![s] =
                               [AuthAwaiting("register", NoUser, user.id, "", {user})
                                    EXCEPT !.username = username]]
                        /\ UNCHANGED auth_pool_out
    /\ UNCHANGED <<exchangeVars, booksVars, now, rabbitChannel, held>>
    /\ UNCHANGED fabricVars

\* POST /login, up to the SELECT.
login(s, username, password) ==
    /\ auth_inflight[s].pc = "idle"
    /\ auth_pool_out < MaxLeaked
    /\ auth_inflight' = [auth_inflight EXCEPT ![s] =
           [AuthAwaiting("login", NoUser, 0, "", {u \in users : u.username = username})
                EXCEPT !.username = username, !.password = password]]
    /\ UNCHANGED <<users, exchangeVars, booksVars, now, users_id_seq, auth_pool_out,
                   rabbitChannel, held>>
    /\ UNCHANGED fabricVars

\* POST /validate: no await, the handler runs to its response.
validateToken(s, token) ==
    /\ auth_inflight[s].pc = "idle"
    /\ auth_inflight' = [auth_inflight EXCEPT ![s] =
           [AuthAwaiting("validate", validate(token).user, 0, "", {})
                EXCEPT !.auth = validate(token).status, !.valid = validate(token).valid,
                       !.token = token]]
    /\ UNCHANGED <<users, exchangeVars, booksVars, now, users_id_seq, auth_pool_out,
                   rabbitChannel, held>>
    /\ UNCHANGED fabricVars

\* GET /users
getUsers(s, header) ==
    /\ auth_inflight[s].pc = "idle"
    /\ LET auth == authenticateToken(header)
       IN  IF auth.status # 0
           THEN AuthUnauthenticated(s, "getUsers", auth)
           ELSE /\ auth_pool_out < MaxLeaked
                /\ auth_inflight' = [auth_inflight EXCEPT ![s] =
                       AuthAwaiting("getUsers", auth.user, 0, "",
                                    {[u EXCEPT !.password = ""] : u \in users})]
                /\ UNCHANGED <<users, exchangeVars, booksVars, now, users_id_seq,
                               auth_pool_out, rabbitChannel, held>>
    /\ UNCHANGED fabricVars

NotSelf_Never(currentUserId, userId) == FALSE

\* currentUserId !== userId
NotSelf(currentUserId, userId) == currentUserId # userId

\* DELETE /delete-user/:id, up to the SELECT.  The 404 return skips
\* client.release().
deleteUser(s, header, id) ==
    /\ auth_inflight[s].pc = "idle"
    /\ LET auth == authenticateToken(header)
       IN  IF auth.status # 0
           THEN AuthUnauthenticated(s, "deleteUser", auth)
           ELSE IF NotSelf(auth.user, id)
           THEN /\ auth_inflight' = [auth_inflight EXCEPT ![s] =
                       AuthAwaiting("deleteUser", auth.user, id, "not self", {})]
                /\ UNCHANGED <<users, exchangeVars, booksVars, now, users_id_seq,
                               auth_pool_out, rabbitChannel, held>>
           ELSE /\ auth_pool_out < MaxLeaked
                /\ LET selected == {u \in users : u.id = id}
                   IN  /\ auth_inflight' = [auth_inflight EXCEPT ![s] =
                              [AuthAwaiting("deleteUser", auth.user, id, "", selected)
                                   EXCEPT !.pc = IF selected = {} THEN "respond" ELSE "delete"]]
                       /\ auth_pool_out' =
                              IF selected = {} THEN auth_pool_out + 1 ELSE auth_pool_out
                /\ UNCHANGED <<users, exchangeVars, booksVars, now, users_id_seq,
                               rabbitChannel, held>>
    /\ UNCHANGED fabricVars

\* DELETE FROM users WHERE id = $1, with the ON DELETE CASCADE of books and of
\* exchange_requests.
deleteUserRow_NoCascade(s) ==
    /\ auth_inflight[s].pc = "delete"
    /\ users' = {u \in users : u.id # auth_inflight[s].id}
    /\ auth_inflight' = [auth_inflight EXCEPT ![s].pc = "respond"]
    /\ UNCHANGED <<exchangeVars, booksVars,
                   now, users_id_seq, auth_pool_out, rabbitChannel, held>>
    /\ UNCHANGED fabricVars

\* DELETE FROM users WHERE id = $1, with the ON DELETE CASCADE of books and of
\* exchange_requests.
deleteUserRow(s) ==
    /\ auth_inflight[s].pc = "delete"
    /\ LET id == auth_inflight[s].id
           kept == {b \in books : b.owner_id # id}
       IN  /\ users' = {u \in users : u.id # id}
           /\ books' = kept
           /\ exchange_requests' =
                  {r \in exchange_requests :
                       /\ r.sender_id # id
                       /\ r.recipient_id # id
                       /\ r.book_id \in {b.id : b \in kept}}
    /\ auth_inflight' = [auth_inflight EXCEPT ![s].pc = "respond"]
    /\ UNCHANGED <<exchange_requests_id_seq, exchange_pool_out, inflight,
                   books_id_seq, books_pool_out, rabbitConnection, books_inflight,
                   now, users_id_seq, auth_pool_out, rabbitChannel, held>>
    /\ UNCHANGED fabricVars

\* What a handler does once its query has returned, with the broker channel
\* as it finds it.
USER_CREATED_QUEUE == "user_created"

\* RETURNING id, username, email, full_name, city
Returning(u) ==
    [id |-> u.id, username |-> u.username, email |-> u.email,
     full_name |-> u.full_name, city |-> u.city]

userCreated_Transient(user) ==
    [queue |-> USER_CREATED_QUEUE, persistent |-> FALSE,
     content |-> [type |-> "USER_CREATED", data |-> user]]

\* channel.sendToQueue(USER_CREATED_QUEUE, ..., { persistent: true })
userCreated(user) ==
    [queue |-> USER_CREATED_QUEUE, persistent |-> TRUE,
     content |-> [type |-> "USER_CREATED", data |-> user]]

AuthReply(q, channel, brokerUp) ==
    LET fail(status, message) ==
            AuthResponse(status, message, Absent, FALSE, NoUser, {}, <<>>, <<>>)
    IN  CASE q.op = "validate" ->
               AuthResponse(q.auth, "", Absent, q.valid, q.user, {}, <<>>, <<>>)
          [] q.op = "register" ->
               IF q.threw = "23505" THEN fail(400, "User already exists")
               ELSE IF q.threw # "" THEN fail(500, "Registration failed")
               ELSE AuthResponse(201, "", jwt_sign(q.id, q.username), FALSE, q.id,
                        {Returning(u) : u \in q.rows},
                        <<[event |-> "registration_success", user |-> q.id]>>,
                        IF connectRabbitMQ(channel, brokerUp) = "open"
                        THEN <<userCreated(Returning(CHOOSE u \in q.rows : TRUE))>>
                        ELSE <<>>)
          [] q.op = "login" ->
               IF q.rows = {} THEN fail(401, "Invalid credentials")
               ELSE IF q.password = Undefined THEN fail(500, "Login failed")
               ELSE IF \E u \in q.rows : ~bcrypt_compare(q.password, u.password)
               THEN fail(401, "Invalid credentials")
               ELSE LET user == CHOOSE u \in q.rows : TRUE
                    IN  AuthResponse(200, "", jwt_sign(user.id, q.username), FALSE, user.id,
                            {}, <<[event |-> "authentication_success", user |-> user.id]>>,
                            <<>>)
          [] q.auth # 0 ->
               fail(q.auth, IF q.auth = 401 THEN "Access denied" ELSE "Invalid token")
          [] q.op = "getUsers" ->
               AuthResponse(200, "", Absent, FALSE, NoUser, q.rows, <<>>, <<>>)
          [] q.op = "deleteUser" ->
               IF q.threw = "not self"
               THEN fail(403, "You are not allowed to delete this user")
               ELSE IF q.rows = {} THEN fail(404, "User not found")
               ELSE AuthResponse(200, "User deleted successfully", Absent, FALSE, NoUser, {},
                        <<[event |-> "user_deleted", user |-> q.id]>>, <<>>)
          [] OTHER -> fail(500, "")

\* The handler resumes and responds; the client keeps the token it is given.
\* register's connectRabbitMQ().then(...) caches the channel it opens.
AuthRespond(s, brokerUp) ==
    /\ auth_inflight[s].pc = "respond"
    /\ LET q == auth_inflight[s]
           reply == AuthReply(q, rabbitChannel, brokerUp)
       IN  /\ held' = IF reply.token # Absent THEN reply.token ELSE held
           /\ rabbitChannel' =
                  IF q.op = "register" /\ q.threw = ""
                  THEN connectRabbitMQ(rabbitChannel, brokerUp)
                  ELSE rabbitChannel
           /\ sockets' = [sockets EXCEPT !["auth"] = socketIo_emit(@, reply.emitted)]
    /\ auth_inflight' = [auth_inflight EXCEPT ![s] = IdleAuthSlot]
    /\ UNCHANGED <<users, exchangeVars, booksVars, now, users_id_seq, auth_pool_out,
                   book_events, broker_up, amqp>>

\* Half an hour passes.
Tick ==
    /\ now < MaxClock
    /\ now' = now + 1
    /\ UNCHANGED <<users, exchangeVars, booksVars, users_id_seq, auth_pool_out,
                   rabbitChannel, auth_inflight, held>>
    /\ UNCHANGED fabricVars

AuthSlots == DOMAIN auth_inflight

\* What a client can send to /validate: nothing, a string that is no JWT, the
\* token it holds, and that token signed with another key.
TokenInputs == {Absent, Malformed, held, MisSigned(held)}

InitAuth ==
    /\ FabricAtRest
    /\ AuthAtRest({})
    /\ exchange_requests = {}
    /\ exchange_requests_id_seq = 0
    /\ exchange_pool_out = 0
    /\ inflight = [s \in {1} |-> IdleSlot]
    /\ BooksAtRest({})

NextAuth ==
    \/ \E s \in AuthSlots, u \in UsernameInputs, p \in PasswordInputs, e \in EmailInputs :
           register(s, u, p, e, Undefined, Undefined)
    \/ \E s \in AuthSlots, u \in UsernameInputs, p \in PasswordInputs : login(s, u, p)
    \/ \E s \in AuthSlots, t \in TokenInputs : validateToken(s, t)
    \/ \E s \in AuthSlots, h \in AuthHeaders : getUsers(s, h)
    \/ \E s \in AuthSlots, h \in AuthHeaders, id \in UserIdInputs : deleteUser(s, h, id)
    \/ \E s \in AuthSlots : deleteUserRow(s)
    \/ \E s \in AuthSlots, up \in BOOLEAN : AuthRespond(s, up)
    \/ Tick

SpecAuth == InitAuth /\ [][NextAuth]_vars

\* ------------------------------------------- both services behind authenticate
\* The two services side by side, each request with every kind of credential
\* and a body that names book 1, user 2 and request 1.
InitGate ==
    /\ FabricAtRest
    /\ AuthAtRest(SeedUsers)
    /\ exchange_requests = {}
    /\ exchange_requests_id_seq = 0
    /\ exchange_pool_out = 0
    /\ inflight = [s \in {1} |-> IdleSlot]
    /\ BooksAtRest(SeedBooks)

\* The credentials of user 1 and of no one.
GateCredentials == {c \in Credentials : c[1].token.id \in {NoUser, 1}}

NextGate ==
    \/ \E s \in Slots, c \in GateCredentials : createExchangeRequest(s, c[1], c[2], 1, 2)
    \/ \E s \in Slots, c \in GateCredentials : getMyExchangeRequests(s, c[1], c[2])
    \/ \E s \in Slots, c \in GateCredentials : approveExchangeRequest(s, c[1], c[2], 1)
    \/ \E s \in Slots, c \in GateCredentials : completeExchangeRequest(s, c[1], c[2], 1)
    \/ \E s \in Slots, c \in GateCredentials : rejectExchangeRequest(s, c[1], c[2], 1)
    \/ \E s \in Slots : ExchangeRespond(s)
    \/ \E s \in BooksSlots, c \in GateCredentials : getBooks(s, c[1], c[2])
    \/ \E s \in BooksSlots, c \in GateCredentials : createBook(s, c[1], c[2], "t", "a")
    \/ \E s \in BooksSlots, c \in GateCredentials : updateBookStatus(s, c[1], c[2], 1, "exchanged")
    \/ \E s \in BooksSlots, up \in BOOLEAN : BooksRespond(s, up)
    \/ ConnectAtStartup

SpecGate == InitGate /\ [][NextGate]_vars

(***************************************************************************)
(* The three services over one database in which users, a book and an      *)
(* exchange request about it are stored: users delete themselves while     *)
(* books and exchange requests are being created.                          *)
(***************************************************************************)
CascadeUsers == SeedUsers \cup {UserRow(DeletedUser, "cy", "cy@x", bcrypt_hash("pw3"))}

\* A request of user 2 to user 3 about the book of user 1.
CascadeRequests == {ExchangeRequest(1, 1, 2, DeletedUser, "pending")}

InitCascade ==
    /\ FabricAtRest
    /\ AuthAtRest(CascadeUsers)
    /\ BooksAtRest(SeedBooks)
    /\ exchange_requests = CascadeRequests
    /\ exchange_requests_id_seq = Cardinality(CascadeRequests)
    /\ exchange_pool_out = 0
    /\ inflight = [s \in {1} |-> IdleSlot]

\* The Authorization header the Auth service admits for the token of user u.
Bearer(u) == [scheme |-> "Bearer", token |-> Token(u).token]

NextCascade ==
    \/ \E s \in AuthSlots, u \in TokenIds, id \in TokenIds : deleteUser(s, Bearer(u), id)
    \/ \E s \in AuthSlots : deleteUserRow(s)
    \/ \E s \in AuthSlots, up \in BOOLEAN : AuthRespond(s, up)
    \/ \E s \in BooksSlots, u \in Users : createBook(s, Token(u), "ok", "t", "a")
    \/ \E s \in BooksSlots, up \in BOOLEAN : BooksRespond(s, up)
    \/ \E s \in Slots, r \in {1, DeletedUser} :
           createExchangeRequest(s, Token(2), "ok", 1, r)
    \/ \E s \in Slots : ExchangeRespond(s)

SpecCascade == InitCascade /\ [][NextCascade]_vars

(***************************************************************************)
(* The protected routes of the three services, each taking requests with   *)
(* no header, with a good token in either header form, and with tokens     *)
(* that do not verify.                                                     *)
(***************************************************************************)
\* The Authorization headers sent to the Auth service.
GuardHeaders ==
    {NoHeader, Token(1), Bearer(1),
     [scheme |-> "Bearer", token |-> MisSigned(Token(1).token)],
     [scheme |-> "Bearer", token |-> Malformed]}

\* No request is in flight in any of the three services.
Quiet ==
    /\ \A s \in Slots : inflight[s].pc = "idle"
    /\ \A s \in BooksSlots : books_inflight[s].pc = "idle"
    /\ \A s \in AuthSlots : auth_inflight[s].pc = "idle"

\* The requests arrive one at a time.
NextGuard ==
    \/ \E s \in Slots, c \in GateCredentials :
           Quiet /\ createExchangeRequest(s, c[1], c[2], 1, 2)
    \/ \E s \in Slots, c \in GateCredentials :
           Quiet /\ getMyExchangeRequests(s, c[1], c[2])
    \/ \E s \in Slots, c \in GateCredentials :
           Quiet /\ approveExchangeRequest(s, c[1], c[2], 1)
    \/ \E s \in Slots, c \in GateCredentials :
           Quiet /\ completeExchangeRequest(s, c[1], c[2], 1)
    \/ \E s \in Slots, c \in GateCredentials :
           Quiet /\ rejectExchangeRequest(s, c[1], c[2], 1)
    \/ \E s \in Slots : ExchangeRespond(s)
    \/ \E s \in BooksSlots, c \in GateCredentials : Quiet /\ getBooks(s, c[1], c[2])
    \/ \E s \in BooksSlots, c \in GateCredentials :
           Quiet /\ createBook(s, c[1], c[2], "t", "a")
    \/ \E s \in BooksSlots, c \in GateCredentials :
           Quiet /\ updateBookStatus(s, c[1], c[2], 1, "exchanged")
    \/ \E s \in BooksSlots, up \in BOOLEAN : BooksRespond(s, up)
    \/ \E s \in AuthSlots, h \in GuardHeaders : Quiet /\ getUsers(s, h)
    \/ \E s \in AuthSlots, h \in GuardHeaders : Quiet /\ deleteUser(s, h, 1)
    \/ \E s \in AuthSlots : deleteUserRow(s)
    \/ \E s \in AuthSlots, up \in BOOLEAN : AuthRespond(s, up)

SpecGuard == InitGate /\ [][NextGuard]_vars

(***************************************************************************)
(* The transitions of the Exchange service and the status update of the    *)
(* Books service, by both users, over two books and a request about each.  *)
(***************************************************************************)
FrameBooks == {Book(1, 1, "available"), Book(2, 2, "available")}

FrameRequests ==
    {ExchangeRequest(1, 1, 2, 1, "pending"), ExchangeRequest(2, 2, 1, 2, "pending")}

InitFrame ==
    /\ FabricAtRest
    /\ AuthAtRest(SeedUsers)
    /\ BooksAtRest(FrameBooks)
    /\ exchange_requests = FrameRequests
    /\ exchange_requests_id_seq = Cardinality(FrameRequests)
    /\ exchange_pool_out = 0
    /\ inflight = [s \in {1} |-> IdleSlot]

NextFrame ==
    \/ \E s \in Slots, u \in Users, id \in RequestIds :
           Quiet /\ approveExchangeRequest(s, Token(u), "ok", id)
    \/ \E s \in Slots, u \in Users, id \in RequestIds :
           Quiet /\ completeExchangeRequest(s, Token(u), "ok", id)
    \/ \E s \in Slots, u \in Users, id \in RequestIds :
           Quiet /\ rejectExchangeRequest(s, Token(u), "ok", id)
    \/ \E s \in Slots : ExchangeRespond(s)
    \/ \E s \in BooksSlots, u \in Users, id \in BookIds, st \in {"exchanged", "lost"} :
           Quiet /\ updateBookStatus(s, Token(u), "ok", id, st)
    \/ \E s \in BooksSlots, up \in BOOLEAN : BooksRespond(s, up)

SpecFrame == InitFrame /\ [][NextFrame]_vars

(***************************************************************************)
(* Users 2 and 3 delete their accounts and go on using the tokens they     *)
(* hold, while time passes.                                                *)
(***************************************************************************)
Leavers == {2, DeletedUser}

NextRevoke ==
    \/ \E s \in AuthSlots, u \in Leavers : deleteUser(s, Bearer(u), u)
    \/ \E s \in AuthSlots : deleteUserRow(s)
    \/ \E s \in AuthSlots, u \in Leavers : validateToken(s, Token(u).token)
    \/ \E s \in AuthSlots, up \in BOOLEAN : AuthRespond(s, up)
    \/ Tick
    \/ \E s \in BooksSlots, u \in Leavers : getBooks(s, Token(u), "ok")
    \/ \E s \in BooksSlots, up \in BOOLEAN : BooksRespond(s, up)
    \/ \E s \in Slots, u \in Leavers : getMyExchangeRequests(s, Token(u), "ok")
    \/ \E s \in Slots : ExchangeRespond(s)

SpecRevoke == InitCascade /\ [][NextRevoke]_vars

(***************************************************************************)
(* Used-up pools.  pool.connect() on a pool whose connections are all out  *)
(* returns a promise that stays pending until one is released; no timeout  *)
(* is configured.  The connections that are out here are those a handler   *)
(* never released.                                                         *)
(***************************************************************************)
\* GET /books, authenticated, finds the pool used up and waits in pool.connect().
getBooksQueued(s, header, verifier) ==
    /\ books_inflight[s].pc = "idle"
    /\ authenticate(header, verifier).status = 0
    /\ books_pool_out >= MaxLeaked
    /\ books_inflight' = [books_inflight EXCEPT ![s] =
           [BooksAwaiting("getBooks", authenticate(header, verifier).user, 0, FALSE, {})
                EXCEPT !.pc = "queued"]]
    /\ UNCHANGED <<users, authVars, exchangeVars, books, books_id_seq, books_pool_out,
                   rabbitConnection, fabricVars>>

\* GET /users, authenticated, finds the pool used up and waits in pool.connect().
getUsersQueued(s, header) ==
    /\ auth_inflight[s].pc = "idle"
    /\ authenticateToken(header).status = 0
    /\ auth_pool_out >= MaxLeaked
    /\ auth_inflight' = [auth_inflight EXCEPT ![s] =
           [AuthAwaiting("getUsers", authenticateToken(header).user, 0, "", {})
                EXCEPT !.pc = "queued"]]
    /\ UNCHANGED <<users, exchangeVars, booksVars, now, users_id_seq, auth_pool_out,
                   rabbitChannel, held, fabricVars>>

NextPool ==
    \/ \E s \in BooksSlots, u \in Users, id \in 1..MaxBooks, st \in {"exchanged", "lost"} :
           updateBookStatus(s, Token(u), "ok", id, st)
    \/ \E s \in BooksSlots : getBooks(s, Token(1), "ok")
    \/ \E s \in BooksSlots : getBooksQueued(s, Token(1), "ok")
    \/ \E s \in BooksSlots, up \in BOOLEAN : BooksRespond(s, up)
    \/ \E s \in AuthSlots, u \in Leavers : deleteUser(s, Bearer(u), u)
    \/ \E s \in AuthSlots : deleteUserRow(s)
    \/ \E s \in AuthSlots : getUsers(s, Bearer(1))
    \/ \E s \in AuthSlots : getUsersQueued(s, Bearer(1))
    \/ \E s \in AuthSlots, up \in BOOLEAN : AuthRespond(s, up)

\* A handler whose query has returned goes on to its response.
SpecPool ==
    /\ InitCascade
    /\ [][NextPool]_vars
    /\ WF_vars(\E s \in BooksSlots, up \in BOOLEAN : BooksRespond(s, up))
    /\ WF_vars(\E s \in AuthSlots : deleteUserRow(s))
    /\ WF_vars(\E s \in AuthSlots, up \in BOOLEAN : AuthRespond(s, up))

(***************************************************************************)
(* Registrations that send a full name and a city, or leave them out,      *)
(* with the broker reachable or not as each is answered.                   *)
(***************************************************************************)
FullNameInputs == {"Ann Lee", Undefined}
CityInputs == {"Riga", Undefined}

NextRegister ==
    \/ \E s \in AuthSlots, u \in UsernameInputs, p \in {"pw1", Undefined}, e \in EmailInputs,
          f \in FullNameInputs, c \in CityInputs :
           register(s, u, p, e, f, c)
    \/ \E s \in AuthSlots, up \in BOOLEAN : AuthRespond(s, up)

SpecRegister == InitAuth /\ [][NextRegister]_vars

\* -------------------------------------------- Exchange: the subscriber side
\* server.listen's callback calls setupRabbitMQ, which awaits amqp.connect.
Listen(i) ==
    /\ book_events[i].pc = "off"
    /\ book_events' = [book_events EXCEPT ![i].pc = "connecting"]
    /\ UNCHANGED <<users, exchangeVars, booksVars, authVars, sockets, broker_up, amqp>>

\* setupRabbitMQ after its awaits: with the broker reachable, a channel, the
\* fanout exchange, a new exclusive queue bound to it and a consumer; else
\* the catch block and its 5 s timer.
setupRabbitMQ(i) ==
    /\ book_events[i].pc = "connecting"
    /\ book_events' = [book_events EXCEPT ![i] =
           IF broker_up
           THEN [@ EXCEPT !.pc = "consuming", !.bound = TRUE, !.queue = <<>>]
           ELSE [@ EXCEPT !.pc = "timer"]]
    /\ UNCHANGED <<users, exchangeVars, booksVars, authVars, sockets, broker_up, amqp>>

\* setTimeout(setupRabbitMQ, 5000) fires.
SetupTimer(i) ==
    /\ book_events[i].pc = "timer"
    /\ book_events' = [book_events EXCEPT ![i].pc = "connecting"]
    /\ UNCHANGED <<users, exchangeVars, booksVars, authVars, sockets, broker_up, amqp>>

consume_NoAck(sub, msg) ==
    IF msg.json
    THEN [sub EXCEPT !.logged = Append(@, msg.value)]
    ELSE [sub EXCEPT !.uncaught = @ + 1]

\* The consume callback on a message: JSON.parse, console.log, channel.ack.
\* JSON.parse throws on bytes that are no JSON, before the ack and outside
\* any try block.
consume(sub, msg) ==
    IF msg.json
    THEN [sub EXCEPT !.logged = Append(@, msg.value), !.acks = @ + 1]
    ELSE [sub EXCEPT !.uncaught = @ + 1]

\* The broker delivers the head of subscriber i's queue to its callback.  An
\* exception that leaves the callback is amqplib's to deal with: the consumer
\* goes on, or the connection, and with it the exclusive queue, is gone.
onMessage(i, survives) ==
    /\ book_events[i].pc = "consuming"
    /\ book_events[i].queue # <<>>
    /\ LET msg == Head(book_events[i].queue)
           sub == consume([book_events[i] EXCEPT !.queue = Tail(@)], msg)
       IN  book_events' = [book_events EXCEPT ![i] =
               IF msg.json \/ survives
               THEN sub
               ELSE [sub EXCEPT !.pc = "dead", !.bound = FALSE, !.queue = <<>>]]
    /\ UNCHANGED <<users, exchangeVars, booksVars, authVars, sockets, broker_up, amqp>>

\* Another client of the broker publishes bytes that are no JSON to
\* book_events; one such message at a time is followed.
PublishNotJSON ==
    /\ \A i \in Subscribers : book_events[i].queue = <<>> /\ book_events[i].uncaught = 0
    /\ \E i \in Subscribers : book_events[i].bound
    /\ book_events' = channel_publish(book_events, <<NotJSON>>)
    /\ UNCHANGED <<users, exchangeVars, booksVars, authVars, sockets, broker_up, amqp>>

(***************************************************************************)
(* The Books service publishing book events while processes subscribe to   *)
(* book_events, early or late, and consume what reaches their queues.      *)
(***************************************************************************)
InitFabric ==
    /\ FabricAtRest
    /\ AuthAtRest(SeedUsers)
    /\ BooksAtRest(SeedBooks)
    /\ exchange_requests = {ExchangeRequest(1, 1, 2, 1, "pending")}
    /\ exchange_requests_id_seq = 1
    /\ exchange_pool_out = 0
    /\ inflight = [s \in {1} |-> IdleSlot]

NextFabric ==
    \/ \E s \in BooksSlots, u \in Users : createBook(s, Token(u), "ok", "t", "a")
    \/ \E s \in BooksSlots, up \in BOOLEAN : BooksRespond(s, up)
    \/ \E i \in Subscribers : Listen(i)
    \/ \E i \in Subscribers : setupRabbitMQ(i)
    \/ \E i \in Subscribers, survives \in BOOLEAN : onMessage(i, survives)
    \/ PublishNotJSON

SpecFabric == InitFabric /\ [][NextFabric]_vars

(***************************************************************************)
(* Live notifier: socket.io clients come and go while handlers emit.  The   *)
(* connection handler only logs: a socket carries no user and joins no     *)
(* room.                                                                   *)
(***************************************************************************)
\* socketIo.on('connection'): a client connects to the service's server.
SocketConnect(svc, c) ==
    /\ ~sockets[svc][c].connected
    /\ sockets' = [sockets EXCEPT ![svc][c] = [connected |-> TRUE, inbox |-> <<>>]]
    /\ UNCHANGED <<users, exchangeVars, booksVars, authVars, book_events, broker_up, amqp>>

\* socket.on('disconnect'): the client is gone, with what it had received.
SocketDisconnect(svc, c) ==
    /\ sockets[svc][c].connected
    /\ sockets' = [sockets EXCEPT ![svc][c] = NoSocket]
    /\ UNCHANGED <<users, exchangeVars, booksVars, authVars, book_events, broker_up, amqp>>

\* No connected client has received MaxInbox notifications yet.
InboxRoom ==
    \A svc \in Services, c \in Clients : Len(sockets[svc][c].inbox) < MaxInbox

NextNotifier ==
    \/ \E svc \in {"exchange", "books"}, c \in Clients : SocketConnect(svc, c)
    \/ \E svc \in {"exchange", "books"}, c \in Clients : SocketDisconnect(svc, c)
    \/ \E s \in Slots, u \in Users :
           Quiet /\ InboxRoom /\ approveExchangeRequest(s, Token(u), "ok", 1)
    \/ \E s \in Slots : ExchangeRespond(s)
    \/ \E s \in BooksSlots : Quiet /\ InboxRoom /\ createBook(s, Token(2), "ok", "t", "a")
    \/ \E s \in BooksSlots, up \in BOOLEAN : BooksRespond(s, up)

SpecNotifier == InitFabric /\ [][NextNotifier]_vars

(***************************************************************************)
(* The Exchange handlers before connected clients: what is written, what   *)
(* is emitted and what is answered, in which step.                         *)
(***************************************************************************)
NextOrder ==
    \/ \E c \in Clients : SocketConnect("exchange", c)
    \/ \E s \in Slots, b \in BookIds :
           Quiet /\ InboxRoom /\ createExchangeRequest(s, Token(2), "ok", b, 1)
    \/ \E s \in Slots, id \in RequestIds :
           Quiet /\ InboxRoom /\ completeExchangeRequest(s, Token(1), "ok", id)
    \/ \E s \in Slots : ExchangeRespond(s)

SpecOrder == InitFabric /\ [][NextOrder]_vars

(***************************************************************************)
(* Books before connected clients, with the broker reachable or not as     *)
(* each handler resumes, and the cached connection lost at any time.       *)
(***************************************************************************)
NextOrphan ==
    \/ \E c \in Clients : SocketConnect("books", c)
    \/ \E s \in BooksSlots, u \in Users :
           Quiet /\ InboxRoom /\ createBook(s, Token(u), "ok", "t", "a")
    \/ \E s \in BooksSlots, u \in Users : Quiet /\ getBooks(s, Token(u), "ok")
    \/ \E s \in BooksSlots, up \in BOOLEAN : BooksRespond(s, up)
    \/ ConnectionClosed

SpecOrphan == InitFabric /\ [][NextOrphan]_vars

(***************************************************************************)
(* The broker connection of Books and Auth, step by step: connectRabbitMQ  *)
(* tests the cached connection, then awaits amqp.connect, and assigns the  *)
(* cache when the attempt settles; other callers run in between.           *)
(***************************************************************************)
Cache(svc) == IF svc = "books" THEN rabbitConnection ELSE rabbitChannel

onConnectError_NoRetry(a) == a

\* The catch block of connectRabbitMQ: setTimeout(connectRabbitMQ, 5000).
onConnectError(a) == [a EXCEPT !.timers = @ + 1]

connectRabbitMQ_Begin_Reconnects(svc, a) ==
    IF Cache(svc) = "open" THEN a ELSE [a EXCEPT !.connecting = @ + 1]

\* connectRabbitMQ up to its await, for a caller that does not wait for it
\* (the listen callback, a retry timer, register's .then): nothing to do if
\* a connection is cached, else an attempt begins.
connectRabbitMQ_Begin(svc, a) ==
    IF Cache(svc) # "none" THEN a ELSE [a EXCEPT !.connecting = @ + 1]

\* server.listen's callback: await connectRabbitMQ().
Startup(svc) ==
    /\ ~amqp[svc].listening
    /\ amqp' = [amqp EXCEPT ![svc] = connectRabbitMQ_Begin(svc, [@ EXCEPT !.listening = TRUE])]
    /\ UNCHANGED <<users, exchangeVars, booksVars, authVars, book_events, sockets, broker_up>>

\* An attempt settles: the connection is assigned to the cache, whatever the
\* cache holds by now, or the catch block sets the retry timer.
ConnectSettles(svc) ==
    /\ amqp[svc].connecting > 0
    /\ amqp' = [amqp EXCEPT ![svc] =
                   IF broker_up
                   THEN [@ EXCEPT !.connecting = @ - 1, !.opened = @ + 1]
                   ELSE onConnectError([@ EXCEPT !.connecting = @ - 1])]
    /\ rabbitConnection' = IF svc = "books" /\ broker_up THEN "open" ELSE rabbitConnection
    /\ rabbitChannel' = IF svc = "auth" /\ broker_up THEN "open" ELSE rabbitChannel
    /\ UNCHANGED <<users, exchangeVars, books, books_id_seq, books_pool_out, books_inflight,
                   now, users_id_seq, auth_pool_out, auth_inflight, held,
                   book_events, sockets, broker_up>>

\* The retry timer fires and calls connectRabbitMQ.
TimerFires(svc) ==
    /\ amqp[svc].timers > 0
    /\ amqp' = [amqp EXCEPT ![svc] = connectRabbitMQ_Begin(svc, [@ EXCEPT !.timers = @ - 1])]
    /\ UNCHANGED <<users, exchangeVars, booksVars, authVars, book_events, sockets, broker_up>>

\* The broker goes away: the connections it had are closed, the exclusive
\* queues are deleted.  No service listens for 'close' or 'error' on its
\* connection, so the cached object stays and the consumer is not set up again.
BrokerDown ==
    /\ broker_up
    /\ broker_up' = FALSE
    /\ rabbitConnection' = IF rabbitConnection = "open" THEN "closed" ELSE rabbitConnection
    /\ rabbitChannel' = IF rabbitChannel = "open" THEN "closed" ELSE rabbitChannel
    /\ book_events' = [i \in Subscribers |->
                          IF book_events[i].pc = "consuming"
                          THEN [book_events[i] EXCEPT !.pc = "dead", !.bound = FALSE,
                                                      !.queue = <<>>]
                          ELSE book_events[i]]
    /\ UNCHANGED <<users, exchangeVars, books, books_id_seq, books_pool_out, books_inflight,
                   now, users_id_seq, auth_pool_out, auth_inflight, held, sockets, amqp>>

\* The broker accepts connections again.
BrokerUp ==
    /\ ~broker_up
    /\ broker_up' = TRUE
    /\ UNCHANGED <<users, exchangeVars, booksVars, authVars, book_events, sockets, amqp>>

\* Attempts and timers a service has pending.
Pending(svc) == amqp[svc].connecting + amqp[svc].timers + Len(amqp[svc].waiting)

\* sendEvent's await connectRabbitMQ() with nothing cached: the handler
\* waits for its own amqp.connect.
sendEventConnects(s) ==
    /\ books_inflight[s].pc = "respond"
    /\ SendsEvent(books_inflight[s])
    /\ rabbitConnection = "none"
    /\ Pending("books") < MaxAttempts
    /\ books_inflight' = [books_inflight EXCEPT ![s].pc = "connecting"]
    /\ UNCHANGED <<users, authVars, exchangeVars, books, books_id_seq, books_pool_out,
                   rabbitConnection, fabricVars>>

\* The handler's attempt settles: the connection is cached and the event
\* published over it, or the timer is set and createChannel on undefined
\* throws; then socketIo.emit and the response.
sendEventSettles(s) ==
    /\ books_inflight[s].pc = "connecting"
    /\ LET q == books_inflight[s]
           sent == sendEvent(IF broker_up THEN "open" ELSE "none", FALSE,
                             BooksEventType(q.op), q.rows)
       IN  amqp' = [amqp EXCEPT !["books"] =
                       IF broker_up
                       THEN [@ EXCEPT !.opened = @ + 1, !.channels = @ + sent.channels]
                       ELSE onConnectError(@)]
    /\ rabbitConnection' = IF broker_up THEN "open" ELSE rabbitConnection
    /\ LET reply == BooksReply(books_inflight[s], IF broker_up THEN "open" ELSE "none", FALSE)
       IN  /\ book_events' = channel_publish(book_events, Encoded(reply.published))
           /\ sockets' = [sockets EXCEPT !["books"] = socketIo_emit(@, reply.emitted)]
    /\ books_inflight' = [books_inflight EXCEPT ![s] = IdleBooksSlot]
    /\ UNCHANGED <<users, authVars, exchangeVars, books, books_id_seq, books_pool_out,
                   broker_up>>

\* sendEvent with a connection cached: connectRabbitMQ returns it at its
\* first line, createChannel opens a channel on it if it is still open and
\* the fact is published; on a closed connection createChannel throws.  Then
\* socketIo.emit and the response.  No statement closes the channel.
sendEventPublishes(s) ==
    /\ books_inflight[s].pc = "respond"
    /\ SendsEvent(books_inflight[s])
    /\ rabbitConnection # "none"
    /\ LET q == books_inflight[s]
           sent == sendEvent(rabbitConnection, FALSE, BooksEventType(q.op), q.rows)
       IN  amqp' = [amqp EXCEPT !["books"].channels = @ + sent.channels]
    /\ LET reply == BooksReply(books_inflight[s], rabbitConnection, FALSE)
       IN  /\ book_events' = channel_publish(book_events, Encoded(reply.published))
           /\ sockets' = [sockets EXCEPT !["books"] = socketIo_emit(@, reply.emitted)]
    /\ books_inflight' = [books_inflight EXCEPT ![s] = IdleBooksSlot]
    /\ UNCHANGED <<users, authVars, exchangeVars, books, books_id_seq, books_pool_out,
                   rabbitConnection, broker_up>>

thenPublish_Always(channel, fact) == <<fact>>

\* .then(channel => { if (channel) channel.sendToQueue(...) }): on a closed
\* channel sendToQueue throws inside the callback and nothing is sent.
thenPublish(channel, fact) == IF channel = "open" THEN <<fact>> ELSE <<>>

\* The fact register makes of the row its INSERT returned.
RegisteredFact(q) == userCreated(Returning(CHOOSE u \in q.rows : TRUE))

\* register with no channel cached: connectRabbitMQ() begins an attempt that
\* the fact waits for; the handler does not wait, emits and answers 201.
registerConnects(s) ==
    /\ auth_inflight[s].pc = "respond"
    /\ auth_inflight[s].op = "register" /\ auth_inflight[s].threw = ""
    /\ rabbitChannel = "none"
    /\ Pending("auth") < MaxAttempts
    /\ amqp' = [amqp EXCEPT !["auth"].waiting = Append(@, RegisteredFact(auth_inflight[s]))]
    /\ LET reply == AuthReply(auth_inflight[s], rabbitChannel, FALSE)
       IN  /\ held' = IF reply.token # Absent THEN reply.token ELSE held
           /\ sockets' = [sockets EXCEPT !["auth"] = socketIo_emit(@, reply.emitted)]
    /\ auth_inflight' = [auth_inflight EXCEPT ![s] = IdleAuthSlot]
    /\ UNCHANGED <<users, exchangeVars, booksVars, now, users_id_seq, auth_pool_out,
                   rabbitChannel, book_events, broker_up>>

\* register's attempt settles: the channel is cached and handed to .then,
\* which publishes the fact; or the catch block sets the timer and .then is
\* handed undefined.  The timer's connectRabbitMQ() has no .then.
registerSettles ==
    /\ amqp["auth"].waiting # <<>>
    /\ LET fact == Head(amqp["auth"].waiting)
       IN  amqp' = [amqp EXCEPT !["auth"] =
               IF broker_up
               THEN [@ EXCEPT !.waiting = Tail(@), !.opened = @ + 1,
                              !.sent = @ \o thenPublish("open", fact)]
               ELSE onConnectError([@ EXCEPT !.waiting = Tail(@),
                                             !.sent = @ \o thenPublish("none", fact)])]
    /\ rabbitChannel' = IF broker_up THEN "open" ELSE rabbitChannel
    /\ UNCHANGED <<users, exchangeVars, booksVars, now, users_id_seq, auth_pool_out,
                   auth_inflight, held, book_events, sockets, broker_up>>

\* register with a channel cached: connectRabbitMQ() resolves to it and .then
\* publishes on it; the handler emits and answers 201.
registerPublishes(s) ==
    /\ auth_inflight[s].pc = "respond"
    /\ auth_inflight[s].op = "register" /\ auth_inflight[s].threw = ""
    /\ rabbitChannel # "none"
    /\ amqp' = [amqp EXCEPT !["auth"].sent =
                   @ \o thenPublish(rabbitChannel, RegisteredFact(auth_inflight[s]))]
    /\ LET reply == AuthReply(auth_inflight[s], rabbitChannel, FALSE)
       IN  /\ held' = IF reply.token # Absent THEN reply.token ELSE held
           /\ sockets' = [sockets EXCEPT !["auth"] = socketIo_emit(@, reply.emitted)]
    /\ auth_inflight' = [auth_inflight EXCEPT ![s] = IdleAuthSlot]
    /\ UNCHANGED <<users, exchangeVars, booksVars, now, users_id_seq, auth_pool_out,
                   rabbitChannel, book_events, broker_up>>

\* The handler in slot s of Books does not call sendEvent.
BooksNeedsNoConnect(s) ==
    ~SendsEvent(books_inflight[s])

\* The handler in slot s of Auth does not call connectRabbitMQ.
AuthNeedsNoConnect(s) ==
    ~(auth_inflight[s].op = "register" /\ auth_inflight[s].threw = "")

NextBroker ==
    \/ \E svc \in Publishers : Startup(svc)
    \/ \E svc \in Publishers : ConnectSettles(svc)
    \/ \E svc \in Publishers : TimerFires(svc)
    \/ BrokerDown
    \/ BrokerUp
    \/ \E s \in AuthSlots, u \in {"ann", "bob"} :
           Quiet /\ register(s, u, "pw1", "ann@x", Undefined, Undefined)
    \/ \E s \in AuthSlots : registerConnects(s)
    \/ registerSettles
    \/ \E s \in AuthSlots : registerPublishes(s)
    \/ \E s \in AuthSlots : AuthNeedsNoConnect(s) /\ AuthRespond(s, broker_up)
    \/ \E s \in BooksSlots : Quiet /\ createBook(s, Token(1), "ok", "t", "a")
    \/ \E s \in BooksSlots : sendEventConnects(s)
    \/ \E s \in BooksSlots : sendEventSettles(s)
    \/ \E s \in BooksSlots : sendEventPublishes(s)
    \/ \E s \in BooksSlots : BooksNeedsNoConnect(s) /\ BooksRespond(s, broker_up)

SpecBroker == InitAuth /\ [][NextBroker]_vars

\* The three services and the broker's comings and goings: one registration,
\* then books created by the user it made, before one Exchange process.
NextLoss ==
    \/ \E svc \in Publishers : Startup(svc)
    \/ \E svc \in Publishers : ConnectSettles(svc)
    \/ \E svc \in Publishers : TimerFires(svc)
    \/ BrokerDown
    \/ BrokerUp
    \/ \E s \in AuthSlots :
           Quiet /\ register(s, "ann", "pw1", "ann@x", Undefined, Undefined)
    \/ \E s \in AuthSlots : registerConnects(s)
    \/ registerSettles
    \/ \E s \in AuthSlots : registerPublishes(s)
    \/ \E s \in BooksSlots : Quiet /\ createBook(s, Token(1), "ok", "t", "a")
    \/ \E s \in BooksSlots : sendEventConnects(s)
    \/ \E s \in BooksSlots : sendEventSettles(s)
    \/ \E s \in BooksSlots : sendEventPublishes(s)
    \/ \E s \in BooksSlots : BooksNeedsNoConnect(s) /\ BooksRespond(s, broker_up)
    \/ \E i \in {1} : Listen(i)
    \/ \E i \in {1} : setupRabbitMQ(i)
    \/ \E i \in {1} : SetupTimer(i)
    \/ \E i \in {1} : onMessage(i, TRUE)

SpecLoss == InitAuth /\ [][NextLoss]_vars

\* The first Exchange process has its queue bound.
Subscribed == book_events[1].pc = "consuming"

\* Books' connection has room for another channel.
ChannelRoom == amqp["books"].channels < MaxChannels

\* Books publishing one fact after another to a bound queue that nobody
\* empties: the owner of the seeded book creates books and changes statuses,
\* the broker stays up and may close Books' connection.
NextChannels ==
    \/ Startup("books")
    \/ ConnectSettles("books")
    \/ Listen(1)
    \/ setupRabbitMQ(1)
    \/ ConnectionClosed
    \/ \E s \in BooksSlots :
           Quiet /\ Subscribed /\ createBook(s, Token(1), "ok", "t", "a")
    \/ \E s \in BooksSlots, id \in 1..MaxBooks, st \in {"available", "exchanged"} :
           Quiet /\ Subscribed /\ ChannelRoom /\ updateBookStatus(s, Token(1), "ok", id, st)
    \/ \E s \in BooksSlots : sendEventConnects(s)
    \/ \E s \in BooksSlots : sendEventSettles(s)
    \/ \E s \in BooksSlots : sendEventPublishes(s)
    \/ \E s \in BooksSlots : BooksNeedsNoConnect(s) /\ BooksRespond(s, broker_up)

SpecChannels == InitFabric /\ [][NextChannels]_vars

\* The Auth service alone: registrations while the broker comes and goes.
NextDrop ==
    \/ Startup("auth")
    \/ ConnectSettles("auth")
    \/ TimerFires("auth")
    \/ BrokerDown
    \/ BrokerUp
    \/ \E s \in AuthSlots, u \in {"ann", "bob"}, e \in EmailInputs :
           Quiet /\ register(s, u, "pw1", e, Undefined, Undefined)
    \/ \E s \in AuthSlots : registerConnects(s)
    \/ registerSettles
    \/ \E s \in AuthSlots : registerPublishes(s)
    \/ \E s \in AuthSlots : AuthNeedsNoConnect(s) /\ AuthRespond(s, broker_up)

SpecDrop == InitAuth /\ [][NextDrop]_vars

(***************************************************************************)
(* Retry: the three services start, the broker comes and goes, attempts    *)
(* settle and timers fire.  An attempt in progress settles and a timer     *)
(* that was set fires; nothing makes the broker come back.                 *)
(***************************************************************************)
NextRetry ==
    \/ \E svc \in Publishers : Startup(svc)
    \/ \E svc \in Publishers : ConnectSettles(svc)
    \/ \E svc \in Publishers : TimerFires(svc)
    \/ \E i \in Subscribers : Listen(i)
    \/ \E i \in Subscribers : setupRabbitMQ(i)
    \/ \E i \in Subscribers : SetupTimer(i)
    \/ BrokerDown
    \/ BrokerUp

SpecRetry ==
    /\ InitAuth
    /\ [][NextRetry]_vars
    /\ \A svc \in Publishers :
           WF_vars(Startup(svc)) /\ WF_vars(ConnectSettles(svc)) /\ WF_vars(TimerFires(svc))
    /\ \A i \in Subscribers :
           WF_vars(Listen(i)) /\ WF_vars(setupRabbitMQ(i)) /\ WF_vars(SetupTimer(i))






\* ================================================================== claims
\* Slot s's handler had its statement applied by the store in this step, for
\* an authenticated caller.
Applied(s) ==
    /\ inflight[s].pc = "idle"
    /\ inflight'[s].pc = "respond"
    /\ inflight'[s].auth = 0

\* The request a suspended handler names, and the caller's part in it.
Names(q, r) == q.a = r.id
IsRecipient(q, r) == q.user = r.recipient_id
IsParty(q, r) == q.user = r.sender_id \/ q.user = r.recipient_id

\* C1: once an exchange request's status is completed or rejected, no step
\* changes that request's status.
C1_TerminalStatusesNeverChange ==
    [][\A r \in exchange_requests :
          r.status \in {"completed", "rejected"}
          => \E n \in exchange_requests' : n.id = r.id /\ n.status = r.status]_vars

\* C2: an approve or a reject by an authenticated caller who is not the
\* recipient of the request it names answers 404, emits nothing and leaves the
\* table as it was.
C2_OnlyRecipientApprovesOrRejects ==
    [][\A s \in Slots : \A r \in exchange_requests :
          ( /\ Applied(s)
            /\ inflight'[s].op \in {"approve", "reject"}
            /\ Names(inflight'[s], r)
            /\ ~IsRecipient(inflight'[s], r) )
          => /\ ExchangeReply(inflight'[s]).status = 404
             /\ ExchangeReply(inflight'[s]).emitted = <<>>
             /\ exchange_requests' = exchange_requests]_vars

\* The sender of a request, who is not its recipient, has asked to approve or
\* reject it and is about to be answered 404.
C2_SenderRefused ==
    \E s \in Slots : \E r \in exchange_requests :
        /\ inflight[s].pc = "respond" /\ inflight[s].auth = 0
        /\ inflight[s].op \in {"approve", "reject"}
        /\ Names(inflight[s], r)
        /\ inflight[s].user = r.sender_id
        /\ ~IsRecipient(inflight[s], r)
        /\ ExchangeReply(inflight[s]).status = 404

\* C3: an approve by the recipient answers 200 with the request as approved
\* and emits exchange_approved, whatever the request's status was; on a
\* request that was already approved the table does not change.
C3_ApproveIgnoresPriorStatus ==
    [][\A s \in Slots : \A r \in exchange_requests :
          ( /\ Applied(s)
            /\ inflight'[s].op = "approve"
            /\ Names(inflight'[s], r)
            /\ IsRecipient(inflight'[s], r) )
          => LET approved == [r EXCEPT !.status = "approved"]
                 reply == ExchangeReply(inflight'[s])
             IN  /\ reply.status = 200
                 /\ reply.rows = {approved}
                 /\ reply.emitted = <<[event |-> "exchange_approved", request |-> {approved}]>>
                 /\ exchange_requests' = (exchange_requests \ {r}) \cup {approved}
                 /\ (r.status = "approved" => exchange_requests' = exchange_requests)]_vars

\* Two approves of the same request are in flight, so the later one found the
\* request approved already, and each is about to answer 200 and emit.
C3_SecondApproveSucceeds ==
    \E s \in Slots, t \in Slots :
        /\ s # t
        /\ inflight[s].op = "approve" /\ inflight[t].op = "approve"
        /\ inflight[s].a = inflight[t].a
        /\ ExchangeReply(inflight[s]).status = 200
        /\ ExchangeReply(inflight[t]).status = 200
        /\ Len(ExchangeReply(inflight[s]).emitted) = 1
        /\ Len(ExchangeReply(inflight[t]).emitted) = 1

\* C4: a complete by the sender or the recipient of the request it names
\* answers 200 with the request as completed and emits exchange_completed,
\* whatever the status was; by anyone else it answers 404 and changes nothing.
C4_CompleteByEitherParty ==
    [][\A s \in Slots : \A r \in exchange_requests :
          ( /\ Applied(s)
            /\ inflight'[s].op = "complete"
            /\ Names(inflight'[s], r) )
          => LET completed == [r EXCEPT !.status = "completed"]
                 reply == ExchangeReply(inflight'[s])
             IN  IF IsParty(inflight'[s], r)
                 THEN /\ reply.status = 200
                      /\ reply.rows = {completed}
                      /\ reply.emitted =
                             <<[event |-> "exchange_completed", request |-> {completed}]>>
                      /\ exchange_requests' = (exchange_requests \ {r}) \cup {completed}
                 ELSE /\ reply.status = 404
                      /\ exchange_requests' = exchange_requests]_vars

\* The sender of a request, who is not its recipient, has completed it.
C4_SenderCompleted ==
    \E s \in Slots : \E r \in exchange_requests :
        /\ inflight[s].pc = "respond" /\ inflight[s].op = "complete"
        /\ Names(inflight[s], r)
        /\ inflight[s].user = r.sender_id /\ ~IsRecipient(inflight[s], r)
        /\ r.status = "completed"
        /\ ExchangeReply(inflight[s]).status = 200

\* C5 as claimed: every create by an authenticated caller that gives a book_id
\* and a recipient_id inserts a pending request sent by the caller and answers
\* 201, whether or not they name a book and a user.
C5_CreateAlwaysInserts ==
    [][\A s \in Slots :
          ( /\ Applied(s) /\ inflight'[s].op = "create"
            /\ inflight'[s].a # NULL /\ inflight'[s].b # NULL )
          => \E n \in exchange_requests' \ exchange_requests :
                /\ n.status = "pending"
                /\ n.sender_id = inflight'[s].user
                /\ ExchangeReply(inflight'[s]).status = 201
                /\ ExchangeReply(inflight'[s]).rows = {n}]_vars

\* C5 as amended: a create inserts a pending request sent by the caller and
\* answers 201 when book_id names a book and the caller and recipient_id name
\* users, whoever owns the book; otherwise it answers 500, inserts nothing and
\* emits nothing.
C5_CreateInsertsWhenReferencesExist ==
    [][\A s \in Slots :
          (Applied(s) /\ inflight'[s].op = "create")
          => LET q == inflight'[s]
                 reply == ExchangeReply(q)
             IN  IF /\ q.a \in {b.id : b \in books}
                    /\ q.user \in UserIds
                    /\ q.b \in UserIds
                 THEN \E n \in exchange_requests' :
                         /\ n \notin exchange_requests
                         /\ exchange_requests' = exchange_requests \cup {n}
                         /\ n.status = "pending"
                         /\ n.sender_id = q.user
                         /\ n.book_id = q.a
                         /\ n.recipient_id = q.b
                         /\ reply.status = 201
                         /\ reply.rows = {n}
                 ELSE /\ exchange_requests' = exchange_requests
                      /\ reply.status = 500
                      /\ reply.emitted = <<>>]_vars

\* A request for a book its sender does not own has been created.
C5_CreatedForAnothersBook ==
    \E s \in Slots : \E b \in books :
        /\ inflight[s].pc = "respond" /\ inflight[s].op = "create"
        /\ inflight[s].a = b.id
        /\ b.owner_id # inflight[s].user
        /\ ExchangeReply(inflight[s]).status = 201
        /\ ExchangeReply(inflight[s]).rows \subseteq exchange_requests

\* C6: the answer to listMine holds a request exactly when the caller is its
\* sender or its recipient.
C6_ListMineIsExact ==
    \A s \in Slots :
        (inflight[s].pc = "respond" /\ inflight[s].auth = 0 /\ inflight[s].op = "list")
        => LET reply == ExchangeReply(inflight[s])
           IN  /\ reply.status = 200
               /\ reply.rows \subseteq exchange_requests
               /\ \A r \in exchange_requests :
                      r \in reply.rows <=> IsParty(inflight[s], r)

\* A listMine answer that holds one stored request and leaves out another.
C6_ListedOneOfTwo ==
    \E s \in Slots : \E mine \in exchange_requests, other \in exchange_requests :
        /\ inflight[s].pc = "respond" /\ inflight[s].op = "list"
        /\ mine \in ExchangeReply(inflight[s]).rows
        /\ other \notin ExchangeReply(inflight[s]).rows
        /\ IsParty(inflight[s], mine)
        /\ ~IsParty(inflight[s], other)

ExpectedNotification(op) ==
    CASE op = "create" -> "exchange_request_created"
      [] op = "approve" -> "exchange_approved"
      [] op = "complete" -> "exchange_completed"
      [] op = "reject" -> "exchange_rejected"

\* C7: a create, approve, complete or reject that answers 200 or 201 emits one
\* notification, named after the operation, that carries the row the statement
\* left in the table; one that answers 404 or 500 emits nothing.
C7_OneNotificationPerSuccess ==
    [][\A s \in Slots :
          (Applied(s) /\ inflight'[s].op \in {"create", "approve", "complete", "reject"})
          => LET reply == ExchangeReply(inflight'[s])
             IN  IF reply.status \in {200, 201}
                 THEN /\ Len(reply.emitted) = 1
                      /\ reply.emitted[1].event = ExpectedNotification(inflight'[s].op)
                      /\ Cardinality(reply.emitted[1].request) = 1
                      /\ reply.emitted[1].request \subseteq exchange_requests'
                      /\ reply.emitted[1].request = reply.rows
                 ELSE /\ reply.status \in {404, 500}
                      /\ reply.emitted = <<>>]_vars

\* A reject is about to be answered 200 and a notification named
\* exchange_rejected carries the stored, rejected row.
C7_RejectNotified ==
    \E s \in Slots : \E r \in exchange_requests :
        /\ inflight[s].pc = "respond" /\ inflight[s].op = "reject"
        /\ r.status = "rejected"
        /\ ExchangeReply(inflight[s]).status = 200
        /\ ExchangeReply(inflight[s]).emitted =
               <<[event |-> "exchange_rejected", request |-> {r}]>>

StatusSetBy(op) ==
    CASE op = "approve" -> "approved"
      [] op = "complete" -> "completed"
      [] op = "reject" -> "rejected"

MayDo(q, r) ==
    IF q.op = "complete" THEN IsParty(q, r) ELSE IsRecipient(q, r)

\* C8: a transition whose caller is entitled to it, applied while another
\* transition of the same request is still in flight with its 200 pending, is
\* applied all the same: the stored status becomes its own, it answers 200 and
\* emits, and the handler in flight keeps its 200 and its notification.
C8_LastWriteWins ==
    [][\A s \in Slots, t \in Slots : \A r \in exchange_requests :
          ( /\ s # t
            /\ Applied(s)
            /\ inflight'[s].op \in {"approve", "complete", "reject"}
            /\ Names(inflight'[s], r)
            /\ MayDo(inflight'[s], r)
            /\ inflight[t].pc = "respond"
            /\ inflight[t].a = r.id
            /\ ExchangeReply(inflight[t]).status = 200 )
          => LET written == [r EXCEPT !.status = StatusSetBy(inflight'[s].op)]
                 reply == ExchangeReply(inflight'[s])
             IN  /\ exchange_requests' = (exchange_requests \ {r}) \cup {written}
                 /\ reply.status = 200
                 /\ reply.emitted = <<[event |-> ExpectedNotification(inflight'[s].op),
                                       request |-> {written}]>>
                 /\ inflight'[t] = inflight[t]
                 /\ Len(ExchangeReply(inflight'[t]).emitted) = 1]_vars

\* An approve and a reject of the same request are both about to answer 200
\* and emit; the stored status is rejected, the approve's notification says
\* approved.
C8_ApproveThenRejectBothSucceed ==
    \E s \in Slots, t \in Slots : \E r \in exchange_requests :
        /\ inflight[s].op = "approve" /\ inflight[t].op = "reject"
        /\ inflight[s].a = r.id /\ inflight[t].a = r.id
        /\ ExchangeReply(inflight[s]).status = 200
        /\ ExchangeReply(inflight[t]).status = 200
        /\ Len(ExchangeReply(inflight[s]).emitted) = 1
        /\ Len(ExchangeReply(inflight[t]).emitted) = 1
        /\ r.status = "rejected"
        /\ ExchangeReply(inflight[s]).emitted[1].request = {[r EXCEPT !.status = "approved"]}

\* Slot s's Books handler had its statement applied by the store in this
\* step, for an authenticated caller.
BooksApplied(s) ==
    /\ books_inflight[s].pc = "idle"
    /\ books_inflight'[s].pc = "respond"
    /\ books_inflight'[s].auth = 0

Connections == {"none", "open", "closed"}

\* C9: a createBook whose INSERT succeeds stores a book owned by the caller; a
\* stored book stays stored, with its owner, while its owner is a user; and
\* the answer to getBooks holds a stored book exactly when the caller owns it,
\* so it holds every book the caller created and never a book of anyone else.
C9_ListingIsolatedPerOwner ==
    [][/\ \A b \in books :
              b.owner_id \in UserIds'
              => \E n \in books' : n.id = b.id /\ n.owner_id = b.owner_id
       /\ \A s \in BooksSlots :
              BooksApplied(s)
              => LET q == books_inflight'[s]
                 IN  /\ (q.op = "createBook" /\ ~q.threw)
                         => \E n \in books' \ books :
                                /\ n.owner_id = q.user
                                /\ n.id = q.id
                                /\ q.rows = {n}
                     /\ q.op = "getBooks"
                         => \A c \in Connections, up \in BOOLEAN :
                                LET reply == BooksReply(q, c, up)
                                IN  /\ reply.status = 200
                                    /\ reply.rows \subseteq books
                                    /\ \A b \in books :
                                           b \in reply.rows <=> b.owner_id = q.user]_vars

\* A getBooks answer that holds a book its caller created and leaves out a
\* stored book of another owner.
C9_ListedOwnNotOthers ==
    \E s \in BooksSlots : \E mine \in books, other \in books :
        /\ books_inflight[s].pc = "respond" /\ books_inflight[s].op = "getBooks"
        /\ mine.owner_id = books_inflight[s].user
        /\ other.owner_id # books_inflight[s].user
        /\ mine \in BooksReply(books_inflight[s], rabbitConnection, TRUE).rows
        /\ other \notin BooksReply(books_inflight[s], rabbitConnection, TRUE).rows

C11_CreateBookEffectsBefore201 ==
    [][\A s \in BooksSlots :
          (BooksApplied(s) /\ books_inflight'[s].op = "createBook")
          => LET q == books_inflight'[s]
             IN  IF q.threw
                 THEN /\ books' = books
                      /\ \A c \in Connections, up \in BOOLEAN :
                             BooksReply(q, c, up).status = 500
                 ELSE \E n \in books' \ books :
                         /\ books' = books \cup {n}
                         /\ n.owner_id = q.user
                         /\ n.status = "available"
                         /\ \A c \in Connections, up \in BOOLEAN :
                                LET reply == BooksReply(q, c, up)
                                IN  /\ reply.status \in {201, 500}
                                    /\ reply.status = 201
                                           <=> (c = "open" \/ (c = "none" /\ up))
                                    /\ reply.status = 201
                                           => /\ reply.rows = {n}
                                              /\ reply.published =
                                                     <<[type |-> "BOOK_CREATED", data |-> {n}]>>
                                              /\ reply.emitted =
                                                     <<[event |-> "book_added", book |-> {n}]>>
                                    /\ reply.status = 500
                                           => /\ reply.published = <<>>
                                              /\ reply.emitted = <<>>]_vars

\* A createBook is about to answer 201 with the stored book, over the
\* connection made at startup.
C11_CreatedAndAnnounced ==
    \E s \in BooksSlots : \E b \in books :
        /\ books_inflight[s].pc = "respond" /\ books_inflight[s].op = "createBook"
        /\ rabbitConnection = "open"
        /\ b.owner_id = books_inflight[s].user /\ b.status = "available"
        /\ LET reply == BooksReply(books_inflight[s], rabbitConnection, FALSE)
           IN  /\ reply.status = 201
               /\ reply.rows = {b}
               /\ Len(reply.published) = 1
               /\ Len(reply.emitted) = 1

\* The broker connection sendEvent ends up with is usable.
Usable(c, up) == c = "open" \/ (c = "none" /\ up)

\* C12 as claimed: an updateBookStatus by the owner of the book, with any
\* status string, stores exactly that string, and where sendEvent has a
\* usable connection answers 200 with the updated book and publishes one
\* BOOK_STATUS_UPDATED fact carrying it.
C12_AnyStatusAccepted ==
    [][\A s \in BooksSlots : \A b \in books :
          ( /\ BooksApplied(s)
            /\ books_inflight'[s].op = "updateBookStatus"
            /\ books_inflight'[s].id = b.id
            /\ books_inflight'[s].user = b.owner_id )
          => LET q == books_inflight'[s]
                 updated == [b EXCEPT !.status = q.status]
             IN  /\ books' = (books \ {b}) \cup {updated}
                 /\ \A c \in Connections, up \in BOOLEAN :
                        Usable(c, up)
                        => /\ BooksReply(q, c, up).status = 200
                           /\ BooksReply(q, c, up).rows = {updated}
                           /\ BooksReply(q, c, up).published =
                                  <<[type |-> "BOOK_STATUS_UPDATED", data |-> {updated}]>>]_vars

\* C12 as amended: the same for every status string of at most 20 characters,
\* whether or not it names a state of the lifecycle; a longer string is
\* rejected by the store: the book is unchanged, nothing is published and the
\* answer is 500.  Where sendEvent has no usable connection the status is
\* stored all the same, nothing is published and the answer is 500.
C12_AnyStatusThatFitsAccepted ==
    [][\A s \in BooksSlots : \A b \in books :
          ( /\ BooksApplied(s)
            /\ books_inflight'[s].op = "updateBookStatus"
            /\ books_inflight'[s].id = b.id
            /\ books_inflight'[s].user = b.owner_id )
          => LET q == books_inflight'[s]
                 updated == [b EXCEPT !.status = q.status]
             IN  IF Len(q.status) <= 20
                 THEN /\ books' = (books \ {b}) \cup {updated}
                      /\ \A c \in Connections, up \in BOOLEAN :
                             LET reply == BooksReply(q, c, up)
                             IN  IF Usable(c, up)
                                 THEN /\ reply.status = 200
                                      /\ reply.rows = {updated}
                                      /\ reply.published =
                                             <<[type |-> "BOOK_STATUS_UPDATED",
                                                data |-> {updated}]>>
                                 ELSE /\ reply.status = 500
                                      /\ reply.published = <<>>
                 ELSE /\ books' = books
                      /\ \A c \in Connections, up \in BOOLEAN :
                             /\ BooksReply(q, c, up).status = 500
                             /\ BooksReply(q, c, up).published = <<>>]_vars

\* The owner has set a status that is no state of the lifecycle; it is stored
\* and about to be answered 200 and published.
C12_ArbitraryStatusStored ==
    \E s \in BooksSlots : \E b \in books :
        /\ books_inflight[s].pc = "respond" /\ books_inflight[s].op = "updateBookStatus"
        /\ books_inflight[s].id = b.id /\ books_inflight[s].user = b.owner_id
        /\ books_inflight[s].status = "lost"
        /\ b.status = "lost"
        /\ rabbitConnection = "open"
        /\ BooksReply(books_inflight[s], rabbitConnection, TRUE).status = 200
        /\ BooksReply(books_inflight[s], rabbitConnection, TRUE).published =
               <<[type |-> "BOOK_STATUS_UPDATED", data |-> {b}]>>

\* This step is slot s of the Exchange service taking a request, for any of
\* its protected routes, that carries this header and finds this verifier.
ExchangeRequestWith(s, header, verifier) ==
    \/ \E b \in BookIdInputs, r \in RecipientInputs :
           createExchangeRequest(s, header, verifier, b, r)
    \/ getMyExchangeRequests(s, header, verifier)
    \/ \E id \in RequestIds : approveExchangeRequest(s, header, verifier, id)
    \/ \E id \in RequestIds : completeExchangeRequest(s, header, verifier, id)
    \/ \E id \in RequestIds : rejectExchangeRequest(s, header, verifier, id)

\* The same for the Books service.
BooksRequestWith(s, header, verifier) ==
    \/ getBooks(s, header, verifier)
    \/ \E t \in TitleInputs, a \in AuthorInputs : createBook(s, header, verifier, t, a)
    \/ \E id \in BookIds, st \in StatusInputs : updateBookStatus(s, header, verifier, id, st)

\* No table, sequence, pool, queue or socket was touched in this step.
HandlerDidNotRun ==
    UNCHANGED <<users, users_id_seq, auth_pool_out, rabbitChannel,
                books, exchange_requests, exchange_requests_id_seq, books_id_seq,
                exchange_pool_out, books_pool_out, rabbitConnection,
                book_events, sockets, broker_up, amqp>>

\* C13: a request to a protected route of either service that carries an
\* Authorization header is answered 503 "Authentication service unavailable"
\* when the verifier cannot be reached, and 401 when the verifier answers with
\* an error status or with valid:false; in each case the handler does not run:
\* no table, sequence or pool is touched and nothing is emitted or published.
C13_UnreachableVerifierIs503 ==
    [][\A c \in Credentials :
          c[1] # NoHeader
          => LET refused == c[2] = "notOk" \/ (c[2] = "ok" /\ ~validate(HeaderValue(c[1])).valid)
             IN  /\ \A s \in Slots :
                        ExchangeRequestWith(s, c[1], c[2])
                        => LET reply == ExchangeReply(inflight'[s])
                           IN  /\ c[2] = "unreachable"
                                   => /\ reply = Response(503, "error", {},
                                                 "Authentication service unavailable", <<>>)
                                      /\ HandlerDidNotRun
                               /\ refused
                                   => /\ reply.status = 401
                                      /\ reply.emitted = <<>>
                                      /\ HandlerDidNotRun
                 /\ \A s \in BooksSlots :
                        BooksRequestWith(s, c[1], c[2])
                        => \A k \in Connections, up \in BOOLEAN :
                               LET reply == BooksReply(books_inflight'[s], k, up)
                               IN  /\ c[2] = "unreachable"
                                       => /\ reply = BooksResponse(503, {},
                                                 "Authentication service unavailable",
                                                 <<>>, <<>>)
                                          /\ HandlerDidNotRun
                                   /\ refused
                                       => /\ reply.status = 401
                                          /\ reply.published = <<>>
                                          /\ reply.emitted = <<>>
                                          /\ HandlerDidNotRun]_vars

\* Each service holds a request it is about to answer 503, with rows stored
\* that its handler could have changed.
C13_BothAnswer503 ==
    \E s \in Slots, t \in BooksSlots :
        /\ inflight[s].pc = "respond" /\ ExchangeReply(inflight[s]).status = 503
        /\ inflight[s].op = "approve"
        /\ books_inflight[t].pc = "respond" /\ books_inflight[t].op = "updateBookStatus"
        /\ BooksReply(books_inflight[t], rabbitConnection, TRUE).status = 503
        /\ exchange_requests # {}
        /\ books # {}

\* The answer slot s's Auth handler is about to give, where the broker does
\* not matter to it.
AuthAnswer(s) == AuthReply(auth_inflight[s], rabbitChannel, FALSE)

\* C14: POST /validate answers 200 to every token: valid:false with no user
\* when the token is absent, is no JWT, is signed with another key or has
\* expired, and valid:true with the token's user otherwise; it changes nothing.
C14_ValidateNeverFails ==
    [][\A s \in AuthSlots, t \in TokenInputs :
          validateToken(s, t)
          => LET reply == AuthReply(auth_inflight'[s], rabbitChannel, FALSE)
                 wellSigned == t.kind = "jwt" /\ t.key = "PDiddy_party"
                 expired == now >= t.iat + ExpiresIn
             IN  /\ reply.status = 200
                 /\ reply.valid <=> (wellSigned /\ ~expired)
                 /\ reply.user = IF reply.valid THEN t.id ELSE NoUser
                 /\ UNCHANGED <<users, books, exchange_requests, held>>]_vars

\* A token that login or register issued and that was then signed with
\* another key is about to be answered 200 valid:false.
C14_MisSignedAnswered200 ==
    \E s \in AuthSlots :
        /\ auth_inflight[s].pc = "respond" /\ auth_inflight[s].op = "validate"
        /\ held.kind = "jwt"
        /\ auth_inflight[s].token = MisSigned(held)
        /\ AuthAnswer(s).status = 200
        /\ ~AuthAnswer(s).valid

\* C15: the token a successful login or register answers with is signed now,
\* with SECRET_KEY, for the id of the row that has the username; such a token
\* presented to /validate fewer than ExpiresIn ticks after it was signed is
\* answered valid:true with that id, and valid:false from then on.
C15_TokenValidUntilExpiry ==
    [][\A s \in AuthSlots :
          /\ ( /\ auth_inflight[s].pc = "respond"
               /\ auth_inflight'[s].pc = "idle"
               /\ auth_inflight[s].op \in {"login", "register"}
               /\ AuthAnswer(s).status \in {200, 201} )
             => \E u \in auth_inflight[s].rows :
                    /\ u.username = auth_inflight[s].username
                    /\ AuthAnswer(s).token = JWT(u.id, u.username, now, "PDiddy_party")
                    /\ held' = AuthAnswer(s).token
          /\ (held.kind = "jwt" /\ validateToken(s, held))
             => LET reply == AuthReply(auth_inflight'[s], rabbitChannel, FALSE)
                IN  /\ held.iat <= now
                    /\ now < held.iat + ExpiresIn => reply.valid /\ reply.user = held.id
                    /\ now >= held.iat + ExpiresIn => ~reply.valid]_vars

\* The token a login or register answered with is presented an hour after it
\* was issued, and is about to be answered valid:false.
C15_ExpiredTokenRefused ==
    \E s \in AuthSlots :
        /\ auth_inflight[s].pc = "respond" /\ auth_inflight[s].op = "validate"
        /\ held.kind = "jwt"
        /\ auth_inflight[s].token = held
        /\ now = held.iat + ExpiresIn
        /\ held.id \in UserIds
        /\ ~AuthAnswer(s).valid

\* C16: a request to a protected route that carries a token jwt.verify
\* accepts is admitted as the token's user, whether the Authorization header
\* is "Bearer <token>" or the token alone: by authenticate of the Books and
\* the Exchange service, where the verifier answers, and by authenticateToken
\* of the Auth service.
C16_BothHeaderFormsAdmitted ==
    [][\A scheme \in {"raw", "Bearer"} : \A u \in TokenIds :
          LET header == [scheme |-> scheme, token |-> Token(u).token]
          IN  jwt_verify(header.token)
              => /\ \A s \in Slots :
                        ExchangeRequestWith(s, header, "ok")
                        => inflight'[s].auth = 0 /\ inflight'[s].user = u
                 /\ \A s \in BooksSlots :
                        BooksRequestWith(s, header, "ok")
                        => books_inflight'[s].auth = 0 /\ books_inflight'[s].user = u
                 /\ \A s \in AuthSlots :
                        (getUsers(s, header) \/ \E id \in UserIdInputs : deleteUser(s, header, id))
                        => auth_inflight'[s].auth = 0 /\ auth_inflight'[s].user = u]_vars

\* The response of a handler of the Auth service that fails.
AuthFailure(status, message) ==
    AuthResponse(status, message, Absent, FALSE, NoUser, {}, <<>>, <<>>)

\* C17 as claimed: once a login or register has answered with a token for a
\* username, every later registration with that username answers 400, stores
\* no row and issues no token.
C17_RegisteredNameNeverAgain ==
    [][\A s \in AuthSlots, u \in UsernameInputs, p \in PasswordInputs \ {Undefined},
          e \in EmailInputs :
          (held.kind = "jwt" /\ held.username = u
            /\ register(s, u, p, e, Undefined, Undefined))
          => /\ users' = users
             /\ \A c \in Connections, up \in BOOLEAN :
                    AuthReply(auth_inflight'[s], c, up) = AuthFailure(400, "User already exists")]_vars

\* C17 as amended: a registration that sends a password and the username or
\* the email of a stored user answers 400 "User already exists", stores no row
\* and issues no token (one that sends no password, or no username, answers
\* 500 and stores nothing); no two stored users share an id, a username or an
\* email.
C17_StoredNamesAreUnique ==
    [][/\ \A a \in users', b \in users' :
              (a.id = b.id \/ a.username = b.username \/ a.email = b.email) => a = b
       /\ \A s \in AuthSlots, u \in UsernameInputs, p \in PasswordInputs, e \in EmailInputs :
              ( /\ auth_inflight'[s].op = "register"
                /\ \E row \in users : row.username = u \/ row.email = e
                /\ register(s, u, p, e, Undefined, Undefined) )
              => /\ users' = users
                 /\ \A c \in Connections, up \in BOOLEAN :
                        AuthReply(auth_inflight'[s], c, up) =
                            IF p = Undefined \/ u = Undefined
                            THEN AuthFailure(500, "Registration failed")
                            ELSE AuthFailure(400, "User already exists")]_vars

\* A registration with the username of a stored user is about to be answered
\* 400, and that user's row is the only one with the name.
C17_DuplicateRefused ==
    \E s \in AuthSlots : \E row \in users :
        /\ auth_inflight[s].pc = "respond" /\ auth_inflight[s].op = "register"
        /\ auth_inflight[s].username = row.username
        /\ auth_inflight[s].threw = "23505"
        /\ AuthAnswer(s).status = 400
        /\ AuthAnswer(s).token = Absent
        /\ Cardinality({u \in users : u.username = row.username}) = 1

C19_DeleteUserIsSelfOnly ==
    [][/\ \A s \in AuthSlots, h \in AuthHeaders, id \in UserIdInputs :
              ( /\ auth_inflight[s].pc = "idle"
                /\ auth_inflight'[s].op = "deleteUser"
                /\ authenticateToken(h).status = 0
                /\ deleteUser(s, h, id) )
              => LET caller == authenticateToken(h).user
                     reply == AuthReply(auth_inflight'[s], rabbitChannel, FALSE)
                 IN  /\ users' = users
                     /\ caller # id
                            => /\ auth_inflight'[s].pc = "respond"
                               /\ reply = AuthFailure(403, "You are not allowed to delete this user")
                     /\ (caller = id /\ id \notin UserIds)
                            => /\ auth_inflight'[s].pc = "respond"
                               /\ reply = AuthFailure(404, "User not found")
                     /\ (caller = id /\ id \in UserIds)
                            => /\ auth_inflight'[s].pc = "delete"
                               /\ auth_inflight'[s].user = caller
                               /\ auth_inflight'[s].id = caller
       /\ \A s \in AuthSlots :
              auth_inflight[s].pc = "delete"
              => /\ auth_inflight[s].user = auth_inflight[s].id
                 /\ auth_inflight'[s].pc = "respond"
                        => /\ users' = {u \in users : u.id # auth_inflight[s].user}
                           /\ AuthReply(auth_inflight'[s], rabbitChannel, FALSE).status = 200
       /\ \A u \in users :
              u.id \notin UserIds'
              => \E s \in AuthSlots :
                     /\ auth_inflight[s].pc = "delete"
                     /\ auth_inflight[s].user = u.id]_vars

\* A delete-user naming another user, whose row is stored, is about to be
\* answered 403.
C19_OtherUserRefused ==
    \E s \in AuthSlots :
        /\ auth_inflight[s].pc = "respond" /\ auth_inflight[s].op = "deleteUser"
        /\ auth_inflight[s].auth = 0
        /\ auth_inflight[s].user # auth_inflight[s].id
        /\ auth_inflight[s].id \in UserIds
        /\ auth_inflight[s].user \in UserIds
        /\ AuthAnswer(s).status = 403

\* The ids the users table has given out whose row is no longer stored.
DeletedUsers == (1..users_id_seq) \ UserIds

\* C20: in every state, for every user whose row has been deleted, no book
\* owned by that user and no exchange request sent by or to that user is
\* stored, and every stored exchange request is about a stored book (so none
\* about a book the user owned remains).
C20_DeletionCascades ==
    /\ \A U \in DeletedUsers :
           /\ \A b \in books : b.owner_id # U
           /\ \A r \in exchange_requests : r.sender_id # U /\ r.recipient_id # U
    /\ \A r \in exchange_requests : \E b \in books : b.id = r.book_id

\* User 1 has deleted their row and is about to be answered 200; the book
\* user 1 owned and the request of user 2 to user 3 about it went with it.
C20_BookAndRequestWentWithOwner ==
    \E s \in AuthSlots :
        /\ auth_inflight[s].pc = "respond" /\ auth_inflight[s].op = "deleteUser"
        /\ auth_inflight[s].id = 1
        /\ AuthAnswer(s).status = 200
        /\ UserIds = {2, DeletedUser}
        /\ \A b \in books : b.id # 1
        /\ \A r \in exchange_requests : r.id # 1

\* C24 as claimed: whenever no request of a service is in flight, none of the
\* connections of its pool is checked out.
C24_ConnectionsAlwaysReleased ==
    /\ (\A s \in BooksSlots : books_inflight[s].pc = "idle") => books_pool_out = 0
    /\ (\A s \in Slots : inflight[s].pc = "idle") => exchange_pool_out = 0
    /\ (\A s \in AuthSlots : auth_inflight[s].pc = "idle") => auth_pool_out = 0

\* This step is slot s of the Auth service taking a request, for either of
\* its protected routes, that carries this header.
AuthRequestWith(s, header) ==
    \/ getUsers(s, header)
    \/ \E id \in UserIdInputs : deleteUser(s, header, id)

\* C28: on every protected route, a request with no Authorization header is
\* answered 401 whatever the state of the verifier; a request whose token does
\* not verify is answered 401 by the Books and Exchange services and 403 by
\* the Auth service (401 when the header holds no token after its scheme); in
\* each case, at the request and at its response, no table, sequence, pool or
\* broker connection is touched and nothing is emitted or published.
C28_NoStoreAccessWithoutCredential ==
    [][/\ \A c \in GateCredentials :
              LET expected ==
                      IF c[1] = NoHeader THEN "No token provided" ELSE "Invalid token"
                  denied ==
                      \/ c[1] = NoHeader
                      \/ c[2] = "ok" /\ ~jwt_verify(HeaderValue(c[1]))
              IN  denied
                  => /\ \A s \in Slots :
                            ExchangeRequestWith(s, c[1], c[2])
                            => /\ ExchangeReply(inflight'[s]) =
                                      Response(401, "error", {}, expected, <<>>)
                               /\ HandlerDidNotRun
                     /\ \A s \in BooksSlots :
                            BooksRequestWith(s, c[1], c[2])
                            => /\ \A k \in Connections, up \in BOOLEAN :
                                      BooksReply(books_inflight'[s], k, up) =
                                          BooksResponse(401, {}, expected, <<>>, <<>>)
                               /\ HandlerDidNotRun
       /\ \A h \in GuardHeaders, s \in AuthSlots :
              (~(h.scheme = "Bearer" /\ jwt_verify(h.token)) /\ AuthRequestWith(s, h))
              => /\ HandlerDidNotRun
                 /\ auth_inflight'[s].pc = "respond"
                 /\ \A k \in Connections, up \in BOOLEAN :
                        AuthReply(auth_inflight'[s], k, up) =
                            IF h.scheme = "Bearer" /\ h.token.kind # "absent"
                            THEN AuthFailure(403, "Invalid token")
                            ELSE AuthFailure(401, "Access denied")
       /\ \A s \in Slots :
              (inflight[s].auth # 0 /\ ExchangeRespond(s)) => HandlerDidNotRun
       /\ \A s \in BooksSlots, up \in BOOLEAN :
              (books_inflight[s].auth # 0 /\ BooksRespond(s, up)) => HandlerDidNotRun
       /\ \A s \in AuthSlots, up \in BOOLEAN :
              (auth_inflight[s].auth # 0 /\ AuthRespond(s, up)) => HandlerDidNotRun]_vars

\* A delete-user of user 1 with a token signed with another key is about to
\* be answered 403, with the rows it names still stored.
C28_MisSignedDeleteRefused ==
    \E s \in AuthSlots :
        /\ auth_inflight[s].pc = "respond" /\ auth_inflight[s].op = "deleteUser"
        /\ AuthAnswer(s) = AuthFailure(403, "Invalid token")
        /\ 1 \in UserIds
        /\ \E b \in books : b.owner_id = 1

\* The row of this table with this id, where there is one.
RowsWithId(table, id) == {row \in table : row.id = id}

\* C30: an approve, complete or reject changes no book and no exchange
\* request other than the one it names, of which it changes the status only;
\* in every step, a book whose status changes is the book an updateStatus of
\* its owner names, and no book changes its owner, title or author.
C30_TransitionsChangeOnlyStatus ==
    [][/\ \A s \in Slots :
              ( /\ inflight[s].pc = "idle"
                /\ inflight'[s].op \in {"approve", "complete", "reject"} )
              => /\ books' = books
                 /\ {r.id : r \in exchange_requests'} = {r.id : r \in exchange_requests}
                 /\ \A r \in exchange_requests :
                        IF r.id = inflight'[s].a
                        THEN \E status \in {r.status, StatusSetBy(inflight'[s].op)} :
                                 exchange_requests' =
                                     (exchange_requests \ {r})
                                         \cup {[r EXCEPT !.status = status]}
                        ELSE r \in exchange_requests'
       /\ \A b \in books : \A c \in RowsWithId(books', b.id) :
              /\ c = [b EXCEPT !.status = c.status]
              /\ c.status # b.status
                     => \E s \in BooksSlots :
                            /\ books_inflight[s].pc = "idle"
                            /\ books_inflight'[s].op = "updateBookStatus"
                            /\ books_inflight'[s].auth = 0
                            /\ books_inflight'[s].user = b.owner_id
                            /\ books_inflight'[s].id = b.id
                            /\ books_inflight'[s].status = c.status]_vars

\* The recipient's approve of request 1, about book 1, has been applied and is
\* about to be answered, with book 1 as it was and request 2 still pending.
C30_ApprovedAndBookAsItWas ==
    \E s \in Slots :
        /\ inflight[s].pc = "respond" /\ inflight[s].op = "approve"
        /\ inflight[s].a = 1 /\ inflight[s].rowCount = 1
        /\ ExchangeRequest(1, 1, 2, 1, "approved") \in exchange_requests
        /\ ExchangeRequest(2, 2, 1, 2, "pending") \in exchange_requests
        /\ Book(1, 1, "available") \in books

\* C23 as claimed: every registration answered 201 publishes one USER_CREATED
\* fact, whatever the state of the broker.
C23_EveryRegistrationPublishes ==
    [][\A s \in AuthSlots :
          (auth_inflight[s].pc = "idle" /\ auth_inflight'[s].op = "register")
          => \A k \in {rabbitChannel}, up \in BOOLEAN :
                 LET reply == AuthReply(auth_inflight'[s], k, up)
                 IN  reply.status = 201 => Len(reply.queued) = 1]_vars

\* C23 as amended: a registration answered 201 publishes, when the channel is
\* cached or the broker can be reached, exactly one message to the queue
\* user_created, flagged persistent, of type USER_CREATED, whose data are the
\* id, username, email, full_name and city of the row just created, and
\* publishes nothing when the broker cannot be reached; a registration that
\* fails publishes nothing, and no other request publishes.
C23_RegistrationPublishesWhenBrokerUsable ==
    [][\A s \in AuthSlots :
          /\ \A u \in UsernameInputs, p \in PasswordInputs, e \in EmailInputs,
                f \in FullNameInputs, c \in CityInputs :
                 (auth_inflight'[s].op = "register" /\ register(s, u, p, e, f, c))
                 => \A k \in Connections, up \in BOOLEAN :
                        LET reply == AuthReply(auth_inflight'[s], k, up)
                            id == users_id_seq'
                        IN  IF reply.status = 201
                            THEN /\ \E row \in users' \ users :
                                        /\ row.id = id /\ row.username = u /\ row.email = e
                                        /\ row.full_name = f /\ row.city = c
                                 /\ reply.queued =
                                        IF Usable(k, up)
                                        THEN <<[queue |-> "user_created",
                                                persistent |-> TRUE,
                                                content |->
                                                    [type |-> "USER_CREATED",
                                                     data |-> [id |-> id, username |-> u,
                                                               email |-> e, full_name |-> f,
                                                               city |-> c]]]>>
                                        ELSE <<>>
                            ELSE /\ users' = users
                                 /\ reply.queued = <<>>
          /\ (auth_inflight'[s].pc = "respond" /\ auth_inflight'[s].op # "register")
                 => \A k \in Connections, up \in BOOLEAN :
                        AuthReply(auth_inflight'[s], k, up).queued = <<>>]_vars

\* A second registration, with a full name and a city, is about to be
\* answered 201 and to publish its fact on the channel the first one cached.
C23_FactOnCachedChannel ==
    \E s \in AuthSlots :
        /\ auth_inflight[s].pc = "respond" /\ auth_inflight[s].op = "register"
        /\ rabbitChannel = "open"
        /\ AuthAnswer(s).status = 201
        /\ Len(AuthAnswer(s).queued) = 1
        /\ AuthAnswer(s).queued[1].content.data.id = 2
        /\ AuthAnswer(s).queued[1].content.data.city = "Riga"
        /\ AuthAnswer(s).queued[1].content.data.full_name = "Ann Lee"

\* What subscriber sub has been handed or is still to be handed: the events
\* its callback logged, then the contents of its queue.
Observed(sub) == sub.logged \o [k \in DOMAIN sub.queue |-> sub.queue[k].value]

\* C21: a subscriber that is not bound before a step has an empty queue after
\* it, whatever was published before; a book event is put once, at the step
\* that publishes it, in the queue of each subscriber bound at that step, and
\* leaves the queue once, handed to the callback; so no event is observed
\* twice by a subscriber, and none by a subscriber that binds later.
C21_FanoutAtMostOnceNoReplay ==
    [][\A i \in Subscribers :
          LET before == book_events[i]
              after == book_events'[i]
          IN  /\ ~before.bound => after.queue = <<>> /\ after.logged = before.logged
              /\ before.bound =>
                     \/ after.queue = before.queue /\ after.logged = before.logged
                     \/ \E s \in BooksSlots, up \in BOOLEAN :
                            /\ BooksRespond(s, up)
                            /\ LET reply == BooksReply(books_inflight[s], rabbitConnection, up)
                               IN  /\ reply.status \in {200, 201}
                                   /\ Len(reply.published) = 1
                                   /\ after.queue =
                                          Append(before.queue,
                                                 [json |-> TRUE, value |-> reply.published[1]])
                            /\ after.logged = before.logged
                     \/ /\ PublishNotJSON
                        /\ after.queue = Append(before.queue, NotJSON)
                        /\ after.logged = before.logged
                     \/ /\ before.queue # <<>>
                        /\ after.queue \in {Tail(before.queue), <<>>}
                        /\ IF Head(before.queue).json
                           THEN after.logged = Append(before.logged, Head(before.queue).value)
                           ELSE after.logged = before.logged
              /\ \A j, k \in DOMAIN Observed(after) :
                     (j # k /\ Observed(after)[j].type # "")
                     => Observed(after)[j] # Observed(after)[k]]_vars

\* One subscriber has logged the event of a book that was created while it
\* was bound; another, bound since, has an empty queue and has logged nothing.
C21_LateSubscriberMissedEvent ==
    \E i, j \in Subscribers :
        /\ book_events[i].pc = "consuming" /\ Len(book_events[i].logged) = 1
        /\ book_events[i].logged[1].type = "BOOK_CREATED"
        /\ book_events[i].logged[1].data \subseteq books
        /\ book_events[j].pc = "consuming" /\ book_events[j].bound
        /\ book_events[j].queue = <<>> /\ book_events[j].logged = <<>>
        /\ \A s \in BooksSlots : books_inflight[s].pc = "idle"
        /\ books_id_seq = MaxBooks

\* C25 as claimed: no exception leaves a handler or a callback uncaught.
C25_NoFailureEscapes ==
    \A i \in Subscribers : book_events[i].uncaught = 0

\* C29: the consume callback, on a book event, logs the decoded event and
\* acknowledges it once, in that one step, and the step changes no exchange
\* request and no other row; acknowledgements are sent in no other step, so a
\* subscriber has sent as many as it has logged events.
C29_ConsumerAcksAndChangesNothing ==
    [][\A i \in Subscribers :
          LET before == book_events[i]
              after == book_events'[i]
          IN  /\ \A survives \in BOOLEAN :
                     (onMessage(i, survives) /\ Head(before.queue).json)
                     => /\ after.logged = Append(before.logged, Head(before.queue).value)
                        /\ after.acks = before.acks + 1
                        /\ after.queue = Tail(before.queue)
                        /\ after.pc = "consuming"
                        /\ UNCHANGED <<exchange_requests, exchange_requests_id_seq, books,
                                       users, exchange_pool_out, inflight>>
              /\ after.acks # before.acks
                     => \E survives \in BOOLEAN : onMessage(i, survives)
              /\ after.acks = Len(after.logged)]_vars

\* A subscriber has logged and acknowledged the event of the book created
\* while it was bound, and the exchange request about book 1 is as it was.
C29_EventAcked ==
    \E i \in Subscribers :
        /\ book_events[i].acks = 1
        /\ Len(book_events[i].logged) = 1
        /\ book_events[i].logged[1].type = "BOOK_CREATED"
        /\ book_events[i].queue = <<>>
        /\ exchange_requests = {ExchangeRequest(1, 1, 2, 1, "pending")}

\* C22: at the step in which a handler emits, every client connected to that
\* service at that step receives the notification, whoever the request is
\* from or for; a client's inbox changes at no other step, and a client that
\* was not connected at a step has received nothing after it.
C22_BroadcastToAllConnectedNoReplay ==
    [][/\ \A s \in Slots :
           ExchangeRespond(s)
           => \A c \in Clients :
                  sockets["exchange"][c].connected
                  => sockets'["exchange"][c].inbox =
                         sockets["exchange"][c].inbox \o ExchangeReply(inflight[s]).emitted
       /\ \A s \in BooksSlots, up \in BOOLEAN :
           BooksRespond(s, up)
           => \A c \in Clients :
                  sockets["books"][c].connected
                  => sockets'["books"][c].inbox =
                         sockets["books"][c].inbox
                             \o BooksReply(books_inflight[s], rabbitConnection, up).emitted
       /\ \A svc \in Services, c \in Clients :
              /\ ~sockets[svc][c].connected => sockets'[svc][c].inbox = <<>>
              /\ sockets'[svc][c].inbox # sockets[svc][c].inbox
                     => \/ svc = "exchange" /\ \E s \in Slots : ExchangeRespond(s)
                        \/ svc = "books" /\ \E s \in BooksSlots, up \in BOOLEAN : BooksRespond(s, up)
                        \/ SocketDisconnect(svc, c)]_vars

\* Both clients of the Exchange service are connected; the first has the
\* approval of request 1 (from bob to ann), the second connected since and
\* has nothing.
C22_ApprovalSeenByEarlierClientOnly ==
    \E c, late \in Clients :
        /\ sockets["exchange"][c].connected
        /\ Len(sockets["exchange"][c].inbox) = 1
        /\ sockets["exchange"][c].inbox[1].event = "exchange_approved"
        /\ sockets["exchange"][c].inbox[1].request
               = {ExchangeRequest(1, 1, 2, 1, "approved")}
        /\ sockets["exchange"][late].connected
        /\ sockets["exchange"][late].inbox = <<>>

\* C27 as claimed: no process of Books or Auth has opened more than one
\* broker connection.
C27_AtMostOneConnection ==
    \A svc \in Publishers : amqp[svc].opened <= 1

\* Every service holds a broker connection and every Exchange process has
\* its queue bound to book_events and its consumer registered.
AllConnected ==
    /\ \A svc \in Publishers : Cache(svc) = "open"
    /\ \A i \in Subscribers : book_events[i].pc = "consuming" /\ book_events[i].bound

\* No service has lost a connection it had established.
NoneLost ==
    /\ \A svc \in Publishers : Cache(svc) # "closed"
    /\ \A i \in Subscribers : book_events[i].pc # "dead"

\* C26 as claimed: from any moment after which the broker stays reachable,
\* every service eventually holds a connection and Exchange is consuming.
C26_ReachableBrokerGetsConnected ==
    []([]broker_up => <>AllConnected)

\* C26: from any moment after which the broker stays reachable, and at which
\* no service has lost a connection it had established, the retries go on
\* until every service holds a connection and Exchange is consuming.
C26_RetryUntilConnected ==
    []([](broker_up /\ NoneLost) => <>AllConnected)

\* The broker is reachable again while Books waits on its retry timer and
\* an Exchange process on its own, neither having connected yet.
C26_RetryPendingBrokerBack ==
    /\ broker_up
    /\ amqp["books"].timers = 1 /\ rabbitConnection = "none"
    /\ \E i \in Subscribers : book_events[i].pc = "timer"

\* C31: a handler's write is in the store at the step at which its query
\* returns; the notification is emitted at a later step, the one in which the
\* handler answers, and only by a handler whose query returned a row, about
\* that row; a handler that answers 200 or 201 to a write has emitted in that
\* step, to every client connected then.
C31_WriteThenEmitThenRespond ==
    [][/\ \A s \in Slots :
           (inflight[s].pc = "idle" /\ inflight'[s].pc = "respond"
                /\ inflight'[s].op # "list" /\ ~inflight'[s].threw)
           => /\ inflight'[s].rows \subseteq exchange_requests'
              /\ sockets' = sockets
       /\ \A c \in Clients :
           LET before == sockets["exchange"][c].inbox
               after == sockets'["exchange"][c].inbox
           IN  (before # after /\ sockets["exchange"][c].connected)
               => \E s \in Slots :
                      /\ inflight[s].pc = "respond" /\ inflight'[s].pc = "idle"
                      /\ inflight[s].auth = 0 /\ ~inflight[s].threw
                      /\ inflight[s].rows # {}
                      /\ exchange_requests' = exchange_requests
                      /\ after = Append(before, [event |-> ExchangeEvent(inflight[s].op),
                                                 request |-> inflight[s].rows])
       /\ \A s \in Slots :
           (ExchangeRespond(s) /\ inflight[s].op # "list" /\ inflight[s].auth = 0
                /\ ~inflight[s].threw /\ inflight[s].rowCount > 0)
           => \A c \in Clients :
                  sockets["exchange"][c].connected
                  => Len(sockets'["exchange"][c].inbox)
                         = Len(sockets["exchange"][c].inbox) + 1]_vars

\* A client has been told that request 1 is completed, the request is stored
\* as completed and the handler has answered.
C31_CompletionCommittedAndNotified ==
    \E c \in Clients :
        /\ sockets["exchange"][c].connected
        /\ Len(sockets["exchange"][c].inbox) = 1
        /\ sockets["exchange"][c].inbox[1].event = "exchange_completed"
        /\ sockets["exchange"][c].inbox[1].request \subseteq exchange_requests
        /\ sockets["exchange"][c].inbox[1].request # {}
        /\ Quiet

\* C32: when createBook resumes after its INSERT and gets no usable broker
\* connection, the row is in the store and stays there, the answer is 500,
\* no client is notified and no subscriber gets an event; and a listing
\* returns every stored book of the caller, that one included.
C32_BookStaysWhenPublishFails ==
    [][/\ \A s \in BooksSlots, up \in BOOLEAN :
           (BooksRespond(s, up) /\ books_inflight[s].op = "createBook"
                /\ SendsEvent(books_inflight[s])
                /\ connectRabbitMQ(rabbitConnection, up) # "open")
           => /\ BooksReply(books_inflight[s], rabbitConnection, up).status = 500
              /\ books_inflight[s].rows # {}
              /\ books_inflight[s].rows \subseteq books
              /\ books' = books
              /\ sockets' = sockets
              /\ book_events' = book_events
       /\ \A s \in BooksSlots :
           (books_inflight[s].pc = "idle" /\ books_inflight'[s].op = "getBooks"
                /\ books_inflight'[s].auth = 0)
           => books_inflight'[s].rows
                  = {b \in books : b.owner_id = books_inflight'[s].user}]_vars

\* The service never had a broker connection, user 2's book is stored all
\* the same, a connected client has heard of nothing, and the listing user 2
\* asked for holds the book.
C32_UnannouncedBookListed ==
    \E s \in BooksSlots, b \in books, c \in Clients :
        /\ rabbitConnection = "none"
        /\ b.id = 2 /\ b.owner_id = 2
        /\ sockets["books"][c].connected /\ sockets["books"][c].inbox = <<>>
        /\ books_inflight[s].pc = "respond" /\ books_inflight[s].op = "getBooks"
        /\ b \in books_inflight[s].rows

\* C33: a registration whose INSERT succeeded is answered 201 with a token,
\* its row stored, in a step that publishes nothing unless a channel is
\* already open, whether the broker is reachable or not; the fact is
\* published when the attempt it waits for settles with the broker
\* reachable, and is dropped when it settles with the broker unreachable;
\* nothing else publishes, so no later connection publishes a dropped fact.
C33_RegistrationDoesNotWaitForBroker ==
    [][LET before == amqp["auth"]
           after == amqp'["auth"]
       IN  /\ \A s \in AuthSlots :
                  LET q == auth_inflight[s]
                  IN  (q.pc = "respond" /\ q.op = "register" /\ q.threw = ""
                           /\ auth_inflight'[s] # q)
                      => /\ AuthReply(q, rabbitChannel, FALSE).status = 201
                         /\ held' = jwt_sign(q.id, q.username)
                         /\ \E u \in users' : u.id = q.id /\ u.username = q.username
                         /\ auth_inflight'[s] = IdleAuthSlot
                         /\ rabbitChannel' = rabbitChannel
                         /\ after.sent = IF rabbitChannel = "open"
                                         THEN Append(before.sent, RegisteredFact(q))
                                         ELSE before.sent
           /\ after.waiting # before.waiting
                  => \/ /\ Len(after.waiting) = Len(before.waiting) + 1
                        /\ SubSeq(after.waiting, 1, Len(before.waiting)) = before.waiting
                        /\ after.sent = before.sent
                     \/ /\ before.waiting # <<>>
                        /\ after.waiting = Tail(before.waiting)
                        /\ after.sent = IF broker_up
                                        THEN Append(before.sent, Head(before.waiting))
                                        ELSE before.sent
           /\ after.sent # before.sent
                  => \/ \E s \in AuthSlots :
                            auth_inflight[s].pc = "respond" /\ auth_inflight'[s].pc = "idle"
                     \/ after.waiting # before.waiting]_vars

\* ann registered while the broker was away, the channel has been opened
\* since, and no fact has been published or is waiting.
C33_FactDroppedChannelOpenedSince ==
    /\ \E u \in users : u.username = "ann"
    /\ held # Absent
    /\ rabbitChannel = "open"
    /\ amqp["auth"].sent = <<>>
    /\ amqp["auth"].waiting = <<>>
    /\ amqp["auth"].timers = 0 /\ amqp["auth"].connecting = 0
    /\ Quiet

\* C34: whether the row of user u is stored or deleted, validate answers
\* valid:true for the token issued to u exactly while the token has not
\* expired, and Books and Exchange run their handlers for it as user u
\* exactly then.
C34_DeletionDoesNotRevoke ==
    [][\A u \in Leavers :
          LET token == Token(u).token
              fresh == now < token.iat + ExpiresIn
          IN  /\ \A s \in AuthSlots :
                     (auth_inflight'[s].op = "validate" /\ validateToken(s, token))
                     => /\ auth_inflight'[s].valid = fresh
                        /\ fresh => auth_inflight'[s].user = u
              /\ \A s \in BooksSlots :
                     (books_inflight'[s].op = "getBooks" /\ getBooks(s, Token(u), "ok"))
                     => IF fresh
                        THEN books_inflight'[s].auth = 0 /\ books_inflight'[s].user = u
                        ELSE books_inflight'[s].auth = 401
              /\ \A s \in Slots :
                     (inflight'[s].op = "list" /\ getMyExchangeRequests(s, Token(u), "ok"))
                     => IF fresh
                        THEN inflight'[s].auth = 0 /\ inflight'[s].user = u
                        ELSE inflight'[s].auth = 401]_vars

\* The row of user 3 is deleted, the token issued before is not yet expired,
\* and Books is running the listing asked for with it as user 3.
C34_DeletedUserStillAuthenticated ==
    \E s \in BooksSlots :
        /\ DeletedUser \notin UserIds
        /\ now = 1
        /\ books_inflight[s].pc = "respond" /\ books_inflight[s].op = "getBooks"
        /\ books_inflight[s].auth = 0 /\ books_inflight[s].user = DeletedUser

\* Books, or Auth, has taken in a request that it has not answered.
BooksUnanswered == \E s \in BooksSlots : books_inflight[s].pc # "idle"
AuthUnanswered == \E s \in AuthSlots : auth_inflight[s].pc # "idle"

\* C35 as claimed: every authenticated request that Books or Auth has taken
\* in is answered in the end, however many 404 answers came before.
C35_EveryRequestAnswered ==
    /\ BooksUnanswered ~> ~BooksUnanswered
    /\ AuthUnanswered ~> ~AuthUnanswered

\* Attempts of service svc that have begun and not settled.
AttemptsPending(svc) ==
    amqp[svc].connecting + Len(amqp[svc].waiting)
        + IF svc = "books"
          THEN Cardinality({s \in BooksSlots : books_inflight[s].pc = "connecting"})
          ELSE 0

\* Exchange processes that have set up their consumer never do so again, and
\* one that lost its connection stays as it is.
ExchangeNeverRebinds ==
    \A i \in Subscribers :
        /\ book_events[i].pc \in {"consuming", "dead"}
               => book_events'[i].pc \in {"consuming", "dead"}
        /\ book_events[i].pc = "dead" => book_events'[i] = book_events[i]

C37_OneChannelPerFactNeverClosed ==
    /\ [](amqp["books"].channels = Len(book_events[1].queue))
    /\ [][LET callers == {s \in BooksSlots :
                             /\ SendsEvent(books_inflight[s])
                             /\ books_inflight[s].pc \in {"respond", "connecting"}
                             /\ books_inflight'[s].pc = "idle"}
          IN  amqp'["books"].channels =
                  amqp["books"].channels
                      + IF callers # {} /\ rabbitConnection' = "open" THEN 1 ELSE 0]_vars

\* One connection, still open, carries as many channels as the bound allows:
\* one for the book created and one for each status change since.
C37_ChannelsPileUpOnOneConnection ==
    /\ amqp["books"].opened = 1
    /\ rabbitConnection = "open"
    /\ amqp["books"].channels >= MaxChannels
    /\ books_id_seq > 1
    /\ \E b \in books : b.status = "exchanged"

====
